---- MODULE Spec2Model ----
(***************************************************************************)
(* BIP44 key hierarchy of bip_utils: the depth / level state machine of    *)
(* Bip44Base (bip_utils/bip/bip44_base/bip44_base.py) over the Bip32       *)
(* derivation engine it drives.                                            *)
(*                                                                         *)
(* A Bip32 object is abstracted to the data the level machine depends on:  *)
(* its depth, its public-only flag, its curve class and the identity of    *)
(* its key material (the root it descends from and the child indices       *)
(* applied since).  Key bytes and chain codes are functions of that        *)
(* identity, because child key derivation is deterministic.                *)
(***************************************************************************)
EXTENDS Integers, Sequences, FiniteSets, TLC

VARIABLES
    bip_obj,    \* the Bip44 object the caller currently holds (NoObj: none yet)
    call,       \* the last call made: operation, receiver, arguments, outcome
    cache,      \* the lru_cache of PublicKey and of PrivateKey: the entries
                \* that can still be hit, least recently used first
    threads,    \* the call each thread is in, when several threads share
                \* the object: where it is in the call, and its outcome
    getter,     \* the words list getter: the lists it has loaded
                \* (m_words_lists), with the words files on disk and how
                \* often each has been read
    class_instance
                \* the attribute __instance of each words list getter class

vars == <<bip_obj, call, cache, threads, getter, class_instance>>

----------------------------------------------------------------------------
(* Bounds of the model *)

\* account and address indices supplied by the caller range over 0..MaxIdx
MaxIdx == 1
\* extended keys handed to FromExtendedKey carry a depth in 0..MaxExKeyDepth
MaxExKeyDepth == 6
\* the threads sharing an object are 1..NumThreads
NumThreads == 2

----------------------------------------------------------------------------
(* Bip44Changes / Bip44Levels *)

CHAIN_EXT == 0
CHAIN_INT == 1

MASTER == 0
PURPOSE == 1
COIN == 2
ACCOUNT == 3
CHANGE == 4
ADDRESS_INDEX == 5

Bip44Levels == {MASTER, PURPOSE, COIN, ACCOUNT, CHANGE, ADDRESS_INDEX}

\* A change_type argument: a member of the Bip44Changes enum, or a plain
\* integer (isinstance(change_type, Bip44Changes) is false for the latter).
Bip44Changes == {[is_enum |-> TRUE, val |-> v] : v \in {CHAIN_EXT, CHAIN_INT}}
PlainInts == {[is_enum |-> FALSE, val |-> v] : v \in {0, 1}}

----------------------------------------------------------------------------
(* Bip32 child indices *)

\* A 32-bit child index hi * 2^31 + lo, kept as its top bit and its low 31 bits
Index(hi, lo) == [hi |-> hi, lo |-> lo]

\* a plain small integer n taken as a child index
Unhardened(n) == Index(0, n)

\* Bip32KeyIndex.IsHardened: index & (1 << 31) != 0, that is index >= 2^31
IsHardened(index) == index.hi = 1

\* Bip32Utils.HardenIndex: index | (1 << 31)
HardenIndex(index) == [index EXCEPT !.hi = 1]

\* Bip32Utils.HardenIndex on a plain small integer
Hardened(n) == HardenIndex(Unhardened(n))

----------------------------------------------------------------------------
(* Coin configurations (BipCoinConf) *)

Secp256k1 == "Bip32Secp256k1"
Ed25519Slip == "Bip32Ed25519Slip"
Bip32Classes == {Secp256k1, Ed25519Slip}

\* An element of a derivation path: {index, hardened}
Elem(i, h) == [index |-> i, hardened |-> h]

PathElemIndex(e) == IF e.hardened THEN HardenIndex(Unhardened(e.index)) ELSE Unhardened(e.index)

NOT_HARDENED_DEF_PATH == <<Elem(0, TRUE), Elem(0, FALSE), Elem(0, FALSE)>>
HARDENED_DEF_PATH == <<Elem(0, TRUE), Elem(0, TRUE), Elem(0, TRUE)>>
\* a default path that stops at the account, and one that is one element longer
\* than the address index level
ACCOUNT_DEF_PATH == <<Elem(0, TRUE)>>
LONG_DEF_PATH == <<Elem(0, TRUE), Elem(0, FALSE), Elem(0, FALSE), Elem(0, FALSE)>>

DefaultPaths == {NOT_HARDENED_DEF_PATH, HARDENED_DEF_PATH, ACCOUNT_DEF_PATH, LONG_DEF_PATH}

BipCoinConf(coin_idx, def_path, bip32_cls) ==
    [coin_idx |-> coin_idx, def_path |-> def_path, bip32_cls |-> bip32_cls]

\* Bip84Conf: BitcoinMainNet, BitcoinTestNet / LitecoinTestNet, LitecoinMainNet
Bip84Conf == {BipCoinConf(i, NOT_HARDENED_DEF_PATH, Secp256k1) : i \in {0, 1, 2}}

\* Every configuration the constructors accept
CoinConfs == {BipCoinConf(i, p, c) : i \in {0, 1}, p \in DefaultPaths, c \in Bip32Classes}
                 \cup Bip84Conf

NoConf == BipCoinConf(0, <<>>, "none")

----------------------------------------------------------------------------
(* Bip32 objects *)

Roots == {"seed1", "seed2", "priv1"}

Bip32(depth, pub, cls, root, path) ==
    [depth |-> depth, pub |-> pub, cls |-> cls, root |-> root, path |-> path]

NoBip32 == Bip32(0 - 1, FALSE, "none", "none", <<>>)

\* Bip32Base.IsPrivateUnhardenedDerivationSupported
IsPrivateUnhardenedDerivationSupported(b) == b.cls = Secp256k1

\* The (rare) derived keys that are not valid keys of the curve
IsInvalidDerivedKey(b) ==
    \/ b.root = "seed2" /\ b.depth = 1 /\ b.path[1] = Hardened(44)
    \/ b.root = "seed2" /\ b.depth = 2 /\ b.path[2] = Hardened(1)
    \/ b.root = "priv1" /\ b.depth = 3 /\ b.path[3] = Hardened(1)
    \/ b.root = "priv1" /\ b.depth = 4 /\ b.path[4].lo = 1
    \/ b.root = "seed2" /\ b.depth = 5 /\ b.path[5].lo = 1

Bip32Ok(b, idx) == [err |-> "none", bip32 |-> b, idx |-> idx]
Bip32KeyError(idx) == [err |-> "Bip32KeyError", bip32 |-> NoBip32, idx |-> idx]

\* Bip32Base.ChildKey
ChildKey(b, index) ==
    LET child == Bip32(b.depth + 1, b.pub, b.cls, b.root, Append(b.path, index))
    IN  IF b.pub /\ IsHardened(index)
            THEN Bip32KeyError(<<index>>)       \* private key required
        ELSE IF ~b.pub /\ ~IsHardened(index) /\ ~IsPrivateUnhardenedDerivationSupported(b)
            THEN Bip32KeyError(<<index>>)       \* the curve refuses unhardened derivation
        ELSE IF IsInvalidDerivedKey(child)
            THEN Bip32KeyError(<<index>>)       \* invalid derived key, no retry
        ELSE Bip32Ok(child, <<index>>)

\* Bip32Base.DerivePath: ChildKey for each element, left to right
RECURSIVE DerivePath(_, _)
DerivePath(b, path) ==
    IF path = <<>> THEN Bip32Ok(b, <<>>)
    ELSE LET r == ChildKey(b, PathElemIndex(Head(path)))
         IN  IF r.err # "none" THEN r
             ELSE LET rest == DerivePath(r.bip32, Tail(path))
                  IN  [rest EXCEPT !.idx = r.idx \o rest.idx]

\* Bip32Base.FromSeed: the master key of a seed
Bip32FromSeed(seed, cls) == Bip32(0, FALSE, cls, seed, <<>>)

\* Bip32Base.FromPrivateKey: master key with zeroed chain code
Bip32FromPrivateKey(priv_key, cls) == Bip32(0, FALSE, cls, priv_key, <<>>)

\* An extended key string, by what decoding it gives: whether it decodes at
\* all (checksum, length, version bytes), and the fields it carries.
ExPath(depth) ==
    [i \in 1..depth |-> IF i = 1 THEN Hardened(84) ELSE IF i <= 3 THEN Hardened(0) ELSE Unhardened(0)]

ExKey(depth, pub, root) ==
    [ok |-> TRUE, depth |-> depth, pub |-> pub, root |-> root, path |-> ExPath(depth)]

BadExKey == [ok |-> FALSE, depth |-> 0, pub |-> FALSE, root |-> "none", path |-> <<>>]

ExKeys == {ExKey(d, p, r) : d \in 0..MaxExKeyDepth, p \in BOOLEAN, r \in {"seed1", "seed2"}}
              \cup {BadExKey}

\* Bip32Base.FromExtendedKey
Bip32FromExtendedKey(key_str, cls) ==
    IF ~key_str.ok THEN Bip32KeyError(<<>>)
    ELSE Bip32Ok(Bip32(key_str.depth, key_str.pub, cls, key_str.root, key_str.path), <<>>)

\* A Bip32 key object (Bip32PublicKey / Bip32PrivateKey): the key of a Bip32
\* object together with its key data (depth, chain code, ...)
Bip32Key(b, priv) ==
    [priv |-> priv, depth |-> b.depth, cls |-> b.cls, root |-> b.root, path |-> b.path]

NoKey == [priv |-> FALSE, depth |-> 0 - 1, cls |-> "none", root |-> "none", path |-> <<>>]

\* Bip32Base.PublicKey: every Bip32 object has a public key
Bip32PublicKey(b) == [err |-> "none", key |-> Bip32Key(b, FALSE)]

\* Bip32Base.PrivateKey: Bip32KeyError if the object is public-only
Bip32PrivateKey(b) ==
    IF b.pub THEN [err |-> "Bip32KeyError", key |-> NoKey]
    ELSE [err |-> "none", key |-> Bip32Key(b, TRUE)]

\* Bip32PublicKey.ToExtended / Bip32PrivateKey.ToExtended: the serialization
\* carries the version (private or public), the depth in one byte and the
\* key material
ToExtended(key) ==
    [ok |-> TRUE, depth |-> key.depth % 256, pub |-> ~key.priv,
     root |-> key.root, path |-> key.path]

----------------------------------------------------------------------------
(* Bip44Base *)

Bip44(bip32_obj, coin_conf) == [m_bip32 |-> bip32_obj, m_coin_conf |-> coin_conf]

NoObj == Bip44(NoBip32, NoConf)

\* The outcome of a call: the exception raised ("none": it returned), the
\* object returned, and the child indices handed to ChildKey, in order.
Raise(err, idx) == [err |-> err, ret |-> NoObj, idx |-> idx]
Return(obj, idx) == [err |-> "none", ret |-> obj, idx |-> idx]

\* __init__ without the upper limit on the depth
Bip44Init_NoUpperBound(bip32_obj, coin_conf) ==
    LET depth == bip32_obj.depth
    IN  IF bip32_obj.pub /\ depth < ACCOUNT
        THEN Raise("Bip44DepthError", <<>>)
        ELSE Return(Bip44(bip32_obj, coin_conf), <<>>)

\* __init__ with the account level itself refused to public-only objects
Bip44Init_OffByOne(bip32_obj, coin_conf) ==
    LET depth == bip32_obj.depth
    IN  IF bip32_obj.pub
        THEN IF depth <= ACCOUNT \/ depth > ADDRESS_INDEX
             THEN Raise("Bip44DepthError", <<>>)
             ELSE Return(Bip44(bip32_obj, coin_conf), <<>>)
        ELSE IF depth < 0 \/ depth > ADDRESS_INDEX
             THEN Raise("Bip44DepthError", <<>>)
             ELSE Return(Bip44(bip32_obj, coin_conf), <<>>)

\* __init__ without the public-only branch
Bip44Init_NoPublicBranch(bip32_obj, coin_conf) ==
    LET depth == bip32_obj.depth
    IN  IF depth < 0 \/ depth > ADDRESS_INDEX
        THEN Raise("Bip44DepthError", <<>>)
        ELSE Return(Bip44(bip32_obj, coin_conf), <<>>)

\* Bip44Base.__init__
Bip44Init(bip32_obj, coin_conf) ==
    LET depth == bip32_obj.depth
    IN  IF bip32_obj.pub
        THEN IF depth < ACCOUNT \/ depth > ADDRESS_INDEX
             THEN Raise("Bip44DepthError", <<>>)
             ELSE Return(Bip44(bip32_obj, coin_conf), <<>>)
        ELSE IF depth < 0 \/ depth > ADDRESS_INDEX
             THEN Raise("Bip44DepthError", <<>>)
             ELSE Return(Bip44(bip32_obj, coin_conf), <<>>)

\* cls(<bip32 expression>, coin_conf): an exception of the Bip32 expression
\* propagates, otherwise the constructor runs on its value
New(r, coin_conf) ==
    IF r.err # "none" THEN Raise(r.err, r.idx)
    ELSE [Bip44Init(r.bip32, coin_conf) EXCEPT !.idx = r.idx]

\* Bip44Base.IsPublicOnly
IsPublicOnly(obj) == obj.m_bip32.pub

\* Bip44Base.CoinConf
CoinConf(obj) == obj.m_coin_conf

\* Bip44Base.IsLevel on a Bip44Levels member: the comparison it returns
IsLevel(obj, level) == obj.m_bip32.depth = level

\* The outcome of a call that returns a value, not a Bip44 object
NoVal == [none |-> TRUE]
RaiseVal(err) == [err |-> err, val |-> NoVal]
ReturnVal(val) == [err |-> "none", val |-> val]

\* An argument handed where a Bip44Levels member is expected: a member, or a
\* plain integer (which isinstance(level, Bip44Levels) refuses)
LevelArgs == {[is_level |-> e, val |-> v] : e \in BOOLEAN, v \in Bip44Levels}

\* IsLevel comparing without the type check
IsLevelMethod_NoTypeCheck(obj, level) == ReturnVal([bool |-> IsLevel(obj, level.val)])

\* Bip44Base.IsLevel, the whole method: the type check, then the comparison
IsLevelMethod(obj, level) ==
    IF ~level.is_level THEN RaiseVal("TypeError")
    ELSE ReturnVal([bool |-> IsLevel(obj, level.val)])

\* Bip44PublicKey / Bip44PrivateKey: a Bip32 key with the coin configuration
Bip44PublicKey(pub_key, coin_conf) == [m_pub_key |-> pub_key, m_coin_conf |-> coin_conf]
Bip44PrivateKey(priv_key, coin_conf) == [m_priv_key |-> priv_key, m_coin_conf |-> coin_conf]

\* Bip44Base.PublicKey, the decorated function
PublicKey(obj) ==
    LET k == Bip32PublicKey(obj.m_bip32)
    IN  IF k.err # "none" THEN RaiseVal(k.err)
        ELSE ReturnVal(Bip44PublicKey(k.key, obj.m_coin_conf))

\* Bip44Base.PrivateKey, the decorated function
PrivateKey(obj) ==
    LET k == Bip32PrivateKey(obj.m_bip32)
    IN  IF k.err # "none" THEN RaiseVal(k.err)
        ELSE ReturnVal(Bip44PrivateKey(k.key, obj.m_coin_conf))

\* The two methods decorated with @lru_cache()
KeyOps == {"PublicKey", "PrivateKey"}

\* maxsize of @lru_cache(): the entries one method's cache holds at most
MaxCacheSize == 2

\* The caches of the two methods, each with its entries from the least to
\* the most recently used one, and whether it has dropped an entry yet
NoCache == [m \in KeyOps |-> [entries |-> <<>>, evicted |-> FALSE]]

\* The entries one method's cache holds
Entries(method, c) ==
    {c[method].entries[i] : i \in 1..Len(c[method].entries)}

\* Lookup with the instance as key, one cache for both methods:
CacheHits_AnyMethod(method, obj, c) ==
    {e \in UNION {Entries(m, c) : m \in KeyOps} : e.self = obj}

\* Lookup that takes whatever the method's cache holds, whoever the
\* instance is:
CacheHits_AnyInstance(method, obj, c) == Entries(method, c)

\* @lru_cache() lookup: the entries of the method's cache keyed by the instance
CacheHits(method, obj, c) == {e \in Entries(method, c) : e.self = obj}

\* @lru_cache() hit: the entry keyed by the instance becomes the most
\* recently used one of the method's cache
CacheTouch(method, obj, c) ==
    LET hits == CacheHits(method, obj, c)
        Other(e) == e.self # obj
    IN  IF hits = {} THEN c
        ELSE [c EXCEPT ![method].entries =
                 Append(SelectSeq(@, Other), CHOOSE e \in hits : TRUE)]

\* @lru_cache() store: a value is added under the instance as the most
\* recently used entry, unless an entry was added under it while the
\* function ran; a full cache drops its least recently used entry
CacheStore(method, obj, val, c) ==
    IF CacheHits(method, obj, c) # {} THEN c
    ELSE LET entries == Append(c[method].entries, [self |-> obj, val |-> val])
         IN  IF Len(entries) > MaxCacheSize
                 THEN [c EXCEPT ![method] = [entries |-> Tail(entries), evicted |-> TRUE]]
             ELSE [c EXCEPT ![method].entries = entries]

\* @lru_cache() that keeps the exception of the function as an entry
LruCache_StoreError(method, obj, r, c) ==
    LET hits == CacheHits(method, obj, c)
    IN  IF hits # {}
            THEN [err |-> "none", val |-> (CHOOSE e \in hits : TRUE).val,
                  cache |-> CacheTouch(method, obj, c)]
        ELSE IF r.err # "none"
            THEN [err |-> r.err, val |-> NoVal, cache |-> CacheStore(method, obj, NoVal, c)]
        ELSE [err |-> "none", val |-> r.val, cache |-> CacheStore(method, obj, r.val, c)]

\* @lru_cache() around a method: an entry keyed by the instance is returned
\* without calling the function; otherwise the function is called, its
\* value is stored and returned, and its exception propagates with nothing
\* stored.  r is the outcome of the function, c the entries so far.
LruCache(method, obj, r, c) ==
    LET hits == CacheHits(method, obj, c)
    IN  IF hits # {}
            THEN [err |-> "none", val |-> (CHOOSE e \in hits : TRUE).val,
                  cache |-> CacheTouch(method, obj, c)]
        ELSE IF r.err # "none"
            THEN [err |-> r.err, val |-> NoVal, cache |-> c]
        ELSE [err |-> "none", val |-> r.val, cache |-> CacheStore(method, obj, r.val, c)]

\* Bip44Base._FromSeed
FromSeed(seed_bytes, coin_conf) ==
    IF seed_bytes = "short" THEN Raise("ValueError", <<>>)
    ELSE New(Bip32Ok(Bip32FromSeed(seed_bytes, coin_conf.bip32_cls), <<>>), coin_conf)

\* _FromExtendedKey refusing the extended public keys
FromExtendedKey_PrivateOnly(key_str, coin_conf) ==
    IF key_str.ok /\ key_str.pub THEN Raise("Bip32KeyError", <<>>)
    ELSE New(Bip32FromExtendedKey(key_str, coin_conf.bip32_cls), coin_conf)

\* Bip44Base._FromExtendedKey
FromExtendedKey(key_str, coin_conf) ==
    New(Bip32FromExtendedKey(key_str, coin_conf.bip32_cls), coin_conf)

\* Bip44Base._FromPrivateKey
FromPrivateKey(priv_key, coin_conf) ==
    New(Bip32Ok(Bip32FromPrivateKey(priv_key, coin_conf.bip32_cls), <<>>), coin_conf)

\* _PurposeGeneric wrapping the receiver's own Bip32 object, no child derived
PurposeGeneric_NoChild(obj, purpose) ==
    IF ~IsLevel(obj, MASTER) THEN Raise("Bip44DepthError", <<>>)
    ELSE New(Bip32Ok(obj.m_bip32, <<>>), obj.m_coin_conf)

\* _PurposeGeneric asking for the PURPOSE level instead of MASTER
PurposeGeneric_AtPurpose(obj, purpose) ==
    IF ~IsLevel(obj, PURPOSE) THEN Raise("Bip44DepthError", <<>>)
    ELSE New(ChildKey(obj.m_bip32, purpose), obj.m_coin_conf)

\* Bip44Base._PurposeGeneric
PurposeGeneric(obj, purpose) ==
    IF ~IsLevel(obj, MASTER) THEN Raise("Bip44DepthError", <<>>)
    ELSE New(ChildKey(obj.m_bip32, purpose), obj.m_coin_conf)

\* _CoinGeneric without its level check
CoinGeneric_NoGuard(obj) ==
    LET coin_idx == obj.m_coin_conf.coin_idx
    IN  New(ChildKey(obj.m_bip32, HardenIndex(Unhardened(coin_idx))), obj.m_coin_conf)

\* _CoinGeneric trying the next index when the derivation fails
CoinGeneric_Retry(obj) ==
    IF ~IsLevel(obj, PURPOSE) THEN Raise("Bip44DepthError", <<>>)
    ELSE LET coin_idx == HardenIndex(Unhardened(obj.m_coin_conf.coin_idx))
             next_idx == HardenIndex(Unhardened(obj.m_coin_conf.coin_idx + 1))
             first == ChildKey(obj.m_bip32, coin_idx)
             second == ChildKey(obj.m_bip32, next_idx)
         IN  IF first.err = "none" THEN New(first, obj.m_coin_conf)
             ELSE [New(second, obj.m_coin_conf) EXCEPT !.idx = <<coin_idx, next_idx>>]

\* Bip44Base._CoinGeneric
CoinGeneric(obj) ==
    IF ~IsLevel(obj, PURPOSE) THEN Raise("Bip44DepthError", <<>>)
    ELSE LET coin_idx == obj.m_coin_conf.coin_idx
         IN  New(ChildKey(obj.m_bip32, HardenIndex(Unhardened(coin_idx))), obj.m_coin_conf)

\* _AccountGeneric handing back the receiver itself instead of a new object
AccountGeneric_Self(obj, acc_idx) ==
    IF ~IsLevel(obj, COIN) THEN Raise("Bip44DepthError", <<>>)
    ELSE Return(obj, <<HardenIndex(acc_idx)>>)

\* _AccountGeneric deriving with the index as it was given
AccountGeneric_NoHarden(obj, acc_idx) ==
    IF ~IsLevel(obj, COIN) THEN Raise("Bip44DepthError", <<>>)
    ELSE New(ChildKey(obj.m_bip32, acc_idx), obj.m_coin_conf)

\* Bip44Base._AccountGeneric
AccountGeneric(obj, acc_idx) ==
    IF ~IsLevel(obj, COIN) THEN Raise("Bip44DepthError", <<>>)
    ELSE New(ChildKey(obj.m_bip32, HardenIndex(acc_idx)), obj.m_coin_conf)

\* _ChangeGeneric without its level check
ChangeGeneric_NoGuard(obj, change_type) ==
    IF ~change_type.is_enum THEN Raise("TypeError", <<>>)
    ELSE LET change_idx == IF ~IsPrivateUnhardenedDerivationSupported(obj.m_bip32)
                           THEN HardenIndex(Unhardened(change_type.val))
                           ELSE Unhardened(change_type.val)
         IN  New(ChildKey(obj.m_bip32, change_idx), obj.m_coin_conf)

\* _ChangeGeneric that never hardens the change index
ChangeGeneric_NeverHarden(obj, change_type) ==
    IF ~change_type.is_enum THEN Raise("TypeError", <<>>)
    ELSE IF ~IsLevel(obj, ACCOUNT) THEN Raise("Bip44DepthError", <<>>)
    ELSE New(ChildKey(obj.m_bip32, Unhardened(change_type.val)), obj.m_coin_conf)

\* _ChangeGeneric checking the level before the type of its argument
ChangeGeneric_DepthFirst(obj, change_type) ==
    IF ~IsLevel(obj, ACCOUNT) THEN Raise("Bip44DepthError", <<>>)
    ELSE IF ~change_type.is_enum THEN Raise("TypeError", <<>>)
    ELSE LET change_idx == IF ~IsPrivateUnhardenedDerivationSupported(obj.m_bip32)
                           THEN HardenIndex(Unhardened(change_type.val))
                           ELSE Unhardened(change_type.val)
         IN  New(ChildKey(obj.m_bip32, change_idx), obj.m_coin_conf)

\* Bip44Base._ChangeGeneric
ChangeGeneric(obj, change_type) ==
    IF ~change_type.is_enum THEN Raise("TypeError", <<>>)
    ELSE IF ~IsLevel(obj, ACCOUNT) THEN Raise("Bip44DepthError", <<>>)
    ELSE LET change_idx == IF ~IsPrivateUnhardenedDerivationSupported(obj.m_bip32)
                           THEN HardenIndex(Unhardened(change_type.val))
                           ELSE Unhardened(change_type.val)
         IN  New(ChildKey(obj.m_bip32, change_idx), obj.m_coin_conf)

\* _AddressIndexGeneric that hardens the index on every curve
AddressIndexGeneric_AlwaysHarden(obj, addr_idx) ==
    IF ~IsLevel(obj, CHANGE) THEN Raise("Bip44DepthError", <<>>)
    ELSE New(ChildKey(obj.m_bip32, HardenIndex(addr_idx)), obj.m_coin_conf)

\* _AddressIndexGeneric refusing an index it has just derived with: its
\* outcome depends on the call made before
AddressIndexGeneric_Once(obj, addr_idx) ==
    IF ~IsLevel(obj, CHANGE) THEN Raise("Bip44DepthError", <<>>)
    ELSE IF call.op = "AddressIndex" /\ call.err = "none" /\ call.arg.addr_idx = addr_idx
        THEN Raise("Bip32KeyError", <<>>)
    ELSE LET idx == IF ~IsPrivateUnhardenedDerivationSupported(obj.m_bip32)
                    THEN HardenIndex(addr_idx)
                    ELSE addr_idx
         IN  New(ChildKey(obj.m_bip32, idx), obj.m_coin_conf)

\* _AddressIndexGeneric deriving with the index as it was given on every curve
AddressIndexGeneric_NeverHarden(obj, addr_idx) ==
    IF ~IsLevel(obj, CHANGE) THEN Raise("Bip44DepthError", <<>>)
    ELSE New(ChildKey(obj.m_bip32, addr_idx), obj.m_coin_conf)

\* _AddressIndexGeneric returning the child with its private key dropped
AddressIndexGeneric_ConvertToPublic(obj, addr_idx) ==
    IF ~IsLevel(obj, CHANGE) THEN Raise("Bip44DepthError", <<>>)
    ELSE LET idx == IF ~IsPrivateUnhardenedDerivationSupported(obj.m_bip32)
                    THEN HardenIndex(addr_idx)
                    ELSE addr_idx
             r == ChildKey(obj.m_bip32, idx)
         IN  New([r EXCEPT !.bip32.pub = r.err = "none"], obj.m_coin_conf)

\* Bip44Base._AddressIndexGeneric
AddressIndexGeneric(obj, addr_idx) ==
    IF ~IsLevel(obj, CHANGE) THEN Raise("Bip44DepthError", <<>>)
    ELSE LET idx == IF ~IsPrivateUnhardenedDerivationSupported(obj.m_bip32)
                    THEN HardenIndex(addr_idx)
                    ELSE addr_idx
         IN  New(ChildKey(obj.m_bip32, idx), obj.m_coin_conf)

\* _DeriveDefaultPathGeneric without the coin step
DeriveDefaultPathGeneric_SkipCoin(obj, purpose) ==
    IF ~IsLevel(obj, MASTER) THEN Raise("Bip44DepthError", <<>>)
    ELSE LET p == PurposeGeneric(obj, purpose)
         IN  IF p.err # "none" THEN p
             ELSE LET d == DerivePath(p.ret.m_bip32, p.ret.m_coin_conf.def_path)
                      r == New(d, p.ret.m_coin_conf)
                  IN  [r EXCEPT !.idx = p.idx \o d.idx]

\* _DeriveDefaultPathGeneric following HARDENED_DEF_PATH whatever the
\* configuration says
DeriveDefaultPathGeneric_FixedPath(obj, purpose) ==
    IF ~IsLevel(obj, MASTER) THEN Raise("Bip44DepthError", <<>>)
    ELSE LET p == PurposeGeneric(obj, purpose)
         IN  IF p.err # "none" THEN p
             ELSE LET c == CoinGeneric(p.ret)
                  IN  IF c.err # "none" THEN [c EXCEPT !.idx = p.idx \o c.idx]
                      ELSE LET d == DerivePath(c.ret.m_bip32, HARDENED_DEF_PATH)
                               r == New(d, c.ret.m_coin_conf)
                           IN  [r EXCEPT !.idx = p.idx \o c.idx \o d.idx]

\* _DeriveDefaultPathGeneric handing back the object derived so far when
\* the coin step or a path segment fails
DeriveDefaultPathGeneric_ReturnPartial(obj, purpose) ==
    IF ~IsLevel(obj, MASTER) THEN Raise("Bip44DepthError", <<>>)
    ELSE LET p == PurposeGeneric(obj, purpose)
         IN  IF p.err # "none" THEN p
             ELSE LET c == CoinGeneric(p.ret)
                  IN  IF c.err # "none" THEN Return(p.ret, p.idx \o c.idx)
                      ELSE LET d == DerivePath(c.ret.m_bip32, c.ret.m_coin_conf.def_path)
                               r == New(d, c.ret.m_coin_conf)
                           IN  IF r.err # "none" THEN Return(c.ret, p.idx \o c.idx \o d.idx)
                               ELSE [r EXCEPT !.idx = p.idx \o c.idx \o d.idx]

\* _DeriveDefaultPathGeneric building the object it returns with the
\* configuration of Bitcoin main net, whatever the receiver's is
DeriveDefaultPathGeneric_MainNetConf(obj, purpose) ==
    IF ~IsLevel(obj, MASTER) THEN Raise("Bip44DepthError", <<>>)
    ELSE LET p == PurposeGeneric(obj, purpose)
         IN  IF p.err # "none" THEN p
             ELSE LET c == CoinGeneric(p.ret)
                  IN  IF c.err # "none" THEN [c EXCEPT !.idx = p.idx \o c.idx]
                      ELSE LET d == DerivePath(c.ret.m_bip32, c.ret.m_coin_conf.def_path)
                               r == New(d, BipCoinConf(0, NOT_HARDENED_DEF_PATH, Secp256k1))
                           IN  [r EXCEPT !.idx = p.idx \o c.idx \o d.idx]

\* Bip44Base._DeriveDefaultPathGeneric
DeriveDefaultPathGeneric(obj, purpose) ==
    IF ~IsLevel(obj, MASTER) THEN Raise("Bip44DepthError", <<>>)
    ELSE LET p == PurposeGeneric(obj, purpose)
         IN  IF p.err # "none" THEN p
             ELSE LET c == CoinGeneric(p.ret)
                  IN  IF c.err # "none" THEN [c EXCEPT !.idx = p.idx \o c.idx]
                      ELSE LET d == DerivePath(c.ret.m_bip32, c.ret.m_coin_conf.def_path)
                               r == New(d, c.ret.m_coin_conf)
                           IN  [r EXCEPT !.idx = p.idx \o c.idx \o d.idx]

----------------------------------------------------------------------------
(* The words list getter classes and their global instances.  Instance()   *)
(* reads and writes cls.__instance inside MnemonicWordsListGetterBase, so  *)
(* for every class the attribute is _MnemonicWordsListGetterBase__instance:*)
(* reading it on a class finds the attribute of the nearest class of its   *)
(* method resolution order that has one, writing it sets the class's own.  *)

\* The abstract base class, and concrete getter classes: two derived from
\* the base, and classes derived from these
GetterBase == "MnemonicWordsListGetterBase"
ConcreteGetters == {"GetterA", "GetterB", "GetterA1", "GetterA2", "GetterB1"}

\* The class a getter class is derived from
SuperClass(cls) ==
    CASE cls = "GetterA" -> GetterBase
      [] cls = "GetterB" -> GetterBase
      [] cls = "GetterA1" -> "GetterA"
      [] cls = "GetterA2" -> "GetterA1"
      [] cls = "GetterB1" -> "GetterB"

\* None, and a class without an attribute of its own
NoInstance == [class |-> "none"]

\* __instance = None in the body of the base class; no other class has the
\* attribute
NoInstances == [cls \in {GetterBase} \cup ConcreteGetters |-> NoInstance]

\* cls.__instance read: the attribute of the nearest class that has one
RECURSIVE ClassAttr(_, _)
ClassAttr(attrs, cls) ==
    IF attrs[cls] # NoInstance \/ cls = GetterBase THEN attrs[cls]
    ELSE ClassAttr(attrs, SuperClass(cls))

\* MnemonicWordsListGetterBase.Instance: cls() is assigned to the class's
\* own attribute if the attribute read is None (TypeError from cls() for
\* the abstract base class); the attribute read again is returned
GetterInstance(attrs, cls) ==
    IF ClassAttr(attrs, cls) # NoInstance
        THEN [err |-> "none", val |-> ClassAttr(attrs, cls), attrs |-> attrs]
    ELSE IF cls = GetterBase
        THEN [err |-> "TypeError", val |-> NoVal, attrs |-> attrs]
    ELSE LET set == [attrs EXCEPT ![cls] = [class |-> cls]]
         IN  [err |-> "none", val |-> ClassAttr(set, cls), attrs |-> set]

----------------------------------------------------------------------------
(* The caller: constructs objects and calls the derivation methods *)

Seeds == {"seed1", "seed2", "short"}
PrivateKeys == {"priv1"}
\* the purpose a subclass hands to _PurposeGeneric / _DeriveDefaultPathGeneric
Purposes == {Hardened(44), Hardened(84)}
Indices == {Unhardened(n) : n \in 0..MaxIdx} \cup {Hardened(0)}
ChangeArgs == Bip44Changes \cup PlainInts

\* prev: the outcome of the call before, when that was the same operation
\* on the same object with the same arguments
NoPrev == [same |-> FALSE, err |-> "none", ret |-> NoObj, idx |-> <<>>, val |-> NoVal]

\* A thread that is in no call
NoThread ==
    [pc |-> "idle", op |-> "none", arg |-> [none |-> TRUE], recv |-> NoObj,
     err |-> "none", ret |-> NoObj, idx |-> <<>>, val |-> NoVal]

Threads == 1..NumThreads

\* No words list getter has been created
NoGetter == [none |-> TRUE]

NoCall ==
    [op |-> "none", recv |-> NoObj, arg |-> [none |-> TRUE],
     err |-> "none", ret |-> NoObj, idx |-> <<>>, val |-> NoVal, prev |-> NoPrev]

Prev(op, recv, arg) ==
    IF call.op = op /\ call.recv = recv /\ call.arg = arg
    THEN [same |-> TRUE, err |-> call.err, ret |-> call.ret, idx |-> call.idx,
          val |-> call.val]
    ELSE NoPrev

Outcome(op, recv, arg, r) ==
    [op |-> op, recv |-> recv, arg |-> arg, err |-> r.err, ret |-> r.ret, idx |-> r.idx,
     val |-> NoVal, prev |-> Prev(op, recv, arg)]

\* A constructor call completes: the caller, who held no object, holds the
\* one it returned (still none, if it raised).
Constructed(op, arg, r) ==
    /\ call' = Outcome(op, NoObj, arg, r)
    /\ bip_obj' = r.ret
    /\ cache' = NoCache
    /\ UNCHANGED <<threads, getter, class_instance>>

\* A derivation call on the held object completes: its outcome is recorded;
\* the caller goes on with the returned object, or keeps the one it has
\* (always, if the call raised).  The cache entries of an object the caller
\* let go of can never be hit again.
Completes(op, arg, r, keep) ==
    /\ call' = Outcome(op, bip_obj, arg, r)
    /\ bip_obj' = IF r.err = "none" /\ ~keep THEN r.ret ELSE bip_obj
    /\ cache' = IF r.err = "none" /\ ~keep THEN NoCache ELSE cache
    /\ UNCHANGED <<threads, getter, class_instance>>

\* A call on the held object that returns a value completes: its outcome is
\* recorded, the caller holds the same object.
Answers(op, arg, r, c) ==
    /\ call' = [op |-> op, recv |-> bip_obj, arg |-> arg, err |-> r.err, ret |-> NoObj,
                idx |-> <<>>, val |-> r.val, prev |-> Prev(op, bip_obj, arg)]
    /\ bip_obj' = bip_obj
    /\ cache' = c
    /\ UNCHANGED <<threads, getter, class_instance>>

Init ==
    /\ bip_obj = NoObj
    /\ call = NoCall
    /\ cache = NoCache
    /\ threads = [t \in Threads |-> NoThread]
    /\ getter = NoGetter
    /\ class_instance = NoInstances

CallFromSeed ==
    /\ bip_obj = NoObj
    /\ \E seed_bytes \in Seeds, coin_conf \in CoinConfs :
          Constructed("FromSeed", [seed_bytes |-> seed_bytes, coin_conf |-> coin_conf],
                      FromSeed(seed_bytes, coin_conf))

CallFromExtendedKey ==
    /\ bip_obj = NoObj
    /\ \E key_str \in ExKeys, coin_conf \in CoinConfs :
          Constructed("FromExtendedKey", [key_str |-> key_str, coin_conf |-> coin_conf],
                      FromExtendedKey(key_str, coin_conf))

CallFromPrivateKey ==
    /\ bip_obj = NoObj
    /\ \E priv_key \in PrivateKeys, coin_conf \in CoinConfs :
          Constructed("FromPrivateKey", [priv_key |-> priv_key, coin_conf |-> coin_conf],
                      FromPrivateKey(priv_key, coin_conf))

CallPurpose ==
    /\ bip_obj # NoObj
    /\ \E purpose \in Purposes, keep \in BOOLEAN :
          Completes("Purpose", [purpose |-> purpose],
                    PurposeGeneric(bip_obj, purpose), keep)

CallCoin ==
    /\ bip_obj # NoObj
    /\ \E keep \in BOOLEAN :
          Completes("Coin", [none |-> TRUE], CoinGeneric(bip_obj), keep)

CallAccount ==
    /\ bip_obj # NoObj
    /\ \E acc_idx \in Indices, keep \in BOOLEAN :
          Completes("Account", [acc_idx |-> acc_idx],
                    AccountGeneric(bip_obj, acc_idx), keep)

CallChange ==
    /\ bip_obj # NoObj
    /\ \E change_type \in ChangeArgs, keep \in BOOLEAN :
          Completes("Change", [change_type |-> change_type],
                    ChangeGeneric(bip_obj, change_type), keep)

CallAddressIndex ==
    /\ bip_obj # NoObj
    /\ \E addr_idx \in Indices, keep \in BOOLEAN :
          Completes("AddressIndex", [addr_idx |-> addr_idx],
                    AddressIndexGeneric(bip_obj, addr_idx), keep)

CallDeriveDefaultPath ==
    /\ bip_obj # NoObj
    /\ \E purpose \in Purposes, keep \in BOOLEAN :
          Completes("DeriveDefaultPath", [purpose |-> purpose],
                    DeriveDefaultPathGeneric(bip_obj, purpose), keep)

Next ==
    \/ CallFromSeed
    \/ CallFromExtendedKey
    \/ CallFromPrivateKey
    \/ CallPurpose
    \/ CallCoin
    \/ CallAccount
    \/ CallChange
    \/ CallAddressIndex
    \/ CallDeriveDefaultPath

Spec == Init /\ [][Next]_vars

----------------------------------------------------------------------------
(* The caller of the queries: holds one object of the hierarchy and calls  *)
(* IsLevel, PublicKey and PrivateKey on it, and re-creates an object from  *)
(* the extended form of a key it obtained                                  *)

\* The configurations of the objects queried: Bip84Conf, and one on a curve
\* without unhardened private derivation
QueryConfs == Bip84Conf \cup {BipCoinConf(1, HARDENED_DEF_PATH, Ed25519Slip)}

\* The objects the constructors return for these configurations
QueryRoots ==
    {r.ret : r \in {x \in {FromSeed(sd, cf) : sd \in Seeds, cf \in QueryConfs}
                            \cup {FromPrivateKey(pk, cf) : pk \in PrivateKeys, cf \in QueryConfs}
                            \cup {FromExtendedKey(k, cf) : k \in ExKeys, cf \in QueryConfs} :
                       x.err = "none"}}

\* The objects one derivation call returns from the objects objs
Children(objs) ==
    {r.ret : r \in {x \in UNION {{PurposeGeneric(o, p) : p \in Purposes}
                                      \cup {CoinGeneric(o)}
                                      \cup {AccountGeneric(o, i) : i \in Indices}
                                      \cup {ChangeGeneric(o, c) : c \in ChangeArgs}
                                      \cup {AddressIndexGeneric(o, i) : i \in Indices}
                                      \cup {DeriveDefaultPathGeneric(o, p) : p \in Purposes} :
                                  o \in objs} :
                       x.err = "none"}}

RECURSIVE Descendants(_, _)
Descendants(objs, n) ==
    IF n = 0 THEN objs ELSE Descendants(objs \cup Children(objs), n - 1)

\* Every object a chain of calls from a constructor can give
Holders == Descendants(QueryRoots, ADDRESS_INDEX)

InitQuery ==
    /\ bip_obj \in Holders
    /\ call = NoCall
    /\ cache = NoCache
    /\ threads = [t \in Threads |-> NoThread]
    /\ getter = NoGetter
    /\ class_instance = NoInstances

CallIsLevel ==
    /\ bip_obj # NoObj
    /\ \E level \in LevelArgs :
          Answers("IsLevel", [level |-> level], IsLevelMethod(bip_obj, level), cache)

CallPublicKey ==
    /\ bip_obj # NoObj
    /\ LET r == LruCache("PublicKey", bip_obj, PublicKey(bip_obj), cache)
       IN  Answers("PublicKey", [none |-> TRUE], r, r.cache)

CallPrivateKey ==
    /\ bip_obj # NoObj
    /\ LET r == LruCache("PrivateKey", bip_obj, PrivateKey(bip_obj), cache)
       IN  Answers("PrivateKey", [none |-> TRUE], r, r.cache)

\* FromExtendedKey on the extended form of the key the last call returned,
\* with the coin configuration of the object it came from
CallFromExtendedKeyOfKey ==
    /\ call.op \in {"PublicKey", "PrivateKey"}
    /\ call.err = "none"
    /\ LET key == IF call.op = "PublicKey" THEN call.val.m_pub_key ELSE call.val.m_priv_key
           key_str == ToExtended(key)
           coin_conf == bip_obj.m_coin_conf
       IN  Completes("FromExtendedKey", [key_str |-> key_str, coin_conf |-> coin_conf],
                     FromExtendedKey(key_str, coin_conf), TRUE)

NextQuery ==
    \/ CallIsLevel
    \/ CallPublicKey
    \/ CallPrivateKey
    \/ CallFromExtendedKeyOfKey

SpecQuery == InitQuery /\ [][NextQuery]_vars

----------------------------------------------------------------------------
(* Several threads calling the methods of one object they share.  A        *)
(* derivation method only reads the object; a key access goes through the  *)
(* lru_cache wrapper in three steps (lookup, the function, store), and     *)
(* other threads run between them.                                         *)

\* The calls the threads make
ThreadCallSet ==
    {[op |-> "Purpose", arg |-> [purpose |-> p]] : p \in Purposes}
        \cup {[op |-> "DeriveDefaultPath", arg |-> [purpose |-> p]] : p \in Purposes}
        \cup {[op |-> "Coin", arg |-> [none |-> TRUE]],
              [op |-> "Account", arg |-> [acc_idx |-> Unhardened(0)]],
              [op |-> "Change", arg |-> [change_type |-> [is_enum |-> TRUE, val |-> CHAIN_EXT]]],
              [op |-> "AddressIndex", arg |-> [addr_idx |-> Unhardened(0)]],
              [op |-> "PublicKey", arg |-> [none |-> TRUE]],
              [op |-> "PrivateKey", arg |-> [none |-> TRUE]]}

\* The derivation method op on obj
Derive(op, obj, arg) ==
    CASE op = "Purpose" -> PurposeGeneric(obj, arg.purpose)
      [] op = "Coin" -> CoinGeneric(obj)
      [] op = "Account" -> AccountGeneric(obj, arg.acc_idx)
      [] op = "Change" -> ChangeGeneric(obj, arg.change_type)
      [] op = "AddressIndex" -> AddressIndexGeneric(obj, arg.addr_idx)
      [] op = "DeriveDefaultPath" -> DeriveDefaultPathGeneric(obj, arg.purpose)

\* The function under the decorator of the key access op
KeyFunction(op, obj) == IF op = "PublicKey" THEN PublicKey(obj) ELSE PrivateKey(obj)

\* The objects shared: those of one hierarchy of Bitcoin main net, the
\* private ones at every level and the public-only ones
ThreadParents ==
    {o \in Holders : /\ o.m_coin_conf = BipCoinConf(0, NOT_HARDENED_DEF_PATH, Secp256k1)
                     /\ o.m_bip32.root = "seed1"
                     /\ o.m_bip32.path = ExPath(o.m_bip32.depth)}

InitThreads ==
    /\ bip_obj \in ThreadParents
    /\ call = NoCall
    /\ cache = NoCache
    /\ threads = [t \in Threads |-> NoThread]
    /\ getter = NoGetter
    /\ class_instance = NoInstances

\* Thread t is at step pc of a call
At(t, pc) == threads[t].pc = pc

ThreadCalls(t) ==
    /\ At(t, "idle")
    /\ \E c \in ThreadCallSet :
          threads' = [threads EXCEPT ![t] = [NoThread EXCEPT !.pc = "called", !.op = c.op,
                                                            !.arg = c.arg, !.recv = bip_obj]]
    /\ UNCHANGED <<bip_obj, call, cache, getter, class_instance>>

ThreadDerives(t) ==
    /\ At(t, "called")
    /\ threads[t].op \notin KeyOps
    /\ LET r == Derive(threads[t].op, bip_obj, threads[t].arg)
       IN  threads' = [threads EXCEPT ![t].pc = "done", ![t].err = r.err,
                                      ![t].ret = r.ret, ![t].idx = r.idx]
    /\ UNCHANGED <<bip_obj, call, cache, getter, class_instance>>

ThreadLooksUp(t) ==
    /\ At(t, "called")
    /\ threads[t].op \in KeyOps
    /\ LET hits == CacheHits(threads[t].op, bip_obj, cache)
       IN  threads' = IF hits # {}
                      THEN [threads EXCEPT ![t].pc = "done",
                                           ![t].val = (CHOOSE e \in hits : TRUE).val]
                      ELSE [threads EXCEPT ![t].pc = "miss"]
    /\ cache' = CacheTouch(threads[t].op, bip_obj, cache)
    /\ UNCHANGED <<bip_obj, call, getter, class_instance>>

ThreadComputes(t) ==
    /\ At(t, "miss")
    /\ LET r == KeyFunction(threads[t].op, bip_obj)
       IN  threads' = IF r.err # "none"
                      THEN [threads EXCEPT ![t].pc = "done", ![t].err = r.err]
                      ELSE [threads EXCEPT ![t].pc = "store", ![t].val = r.val]
    /\ UNCHANGED <<bip_obj, call, cache, getter, class_instance>>

ThreadStores(t) ==
    /\ At(t, "store")
    /\ cache' = CacheStore(threads[t].op, bip_obj, threads[t].val, cache)
    /\ threads' = [threads EXCEPT ![t].pc = "done"]
    /\ UNCHANGED <<bip_obj, call, getter, class_instance>>

ThreadReturns(t) ==
    /\ At(t, "done")
    /\ threads' = [threads EXCEPT ![t] = NoThread]
    /\ UNCHANGED <<bip_obj, call, cache, getter, class_instance>>

NextThreads ==
    \E t \in Threads :
        \/ ThreadCalls(t)
        \/ ThreadDerives(t)
        \/ ThreadLooksUp(t)
        \/ ThreadComputes(t)
        \/ ThreadStores(t)
        \/ ThreadReturns(t)

SpecThreads == InitThreads /\ [][NextThreads]_vars

----------------------------------------------------------------------------
(* Several instances: the caches of PublicKey and PrivateKey belong to the *)
(* methods, so every instance of the process shares them, and each holds   *)
(* at most MaxCacheSize entries.  The caches keep a reference to every     *)
(* instance they are keyed by, so no two instances alive share an identity.*)

\* The objects the caller has constructed: a master object, an object at
\* the address index level, a second object of the same seed, a public-only
\* account object, and objects of other origins
InstanceObjs ==
    LET coin_conf == BipCoinConf(0, NOT_HARDENED_DEF_PATH, Secp256k1)
        master == FromSeed("seed1", coin_conf).ret
    IN  <<master,
          DeriveDefaultPathGeneric(master, Hardened(84)).ret,
          FromSeed("seed1", coin_conf).ret,
          FromExtendedKey(ExKey(ACCOUNT, TRUE, "seed1"), coin_conf).ret,
          FromSeed("seed2", coin_conf).ret,
          FromPrivateKey("priv1", coin_conf).ret>>

\* An instance: an object with its identity (the hash lru_cache keys by)
Instance(i) ==
    [id |-> i, m_bip32 |-> InstanceObjs[i].m_bip32, m_coin_conf |-> InstanceObjs[i].m_coin_conf]

\* One more instance than both caches can hold, and a public-only one
Instances == {Instance(i) : i \in 1..(MaxCacheSize + 2)}

\* A call of a decorated method on an instance completes: the caller goes
\* on with that instance
AnswersOn(inst, op, r) ==
    /\ call' = [op |-> op, recv |-> inst, arg |-> [none |-> TRUE], err |-> r.err,
                ret |-> NoObj, idx |-> <<>>, val |-> r.val,
                prev |-> Prev(op, inst, [none |-> TRUE])]
    /\ bip_obj' = inst
    /\ cache' = r.cache
    /\ UNCHANGED <<threads, getter, class_instance>>

CallPublicKeyOn ==
    \E inst \in Instances :
        AnswersOn(inst, "PublicKey", LruCache("PublicKey", inst, PublicKey(inst), cache))

CallPrivateKeyOn ==
    \E inst \in Instances :
        AnswersOn(inst, "PrivateKey", LruCache("PrivateKey", inst, PrivateKey(inst), cache))

SpecCache == Init /\ [][CallPublicKeyOn \/ CallPrivateKeyOn]_vars

----------------------------------------------------------------------------
(* The upper levels, with every purpose index a subclass can hand to       *)
(* _PurposeGeneric: the subclasses in the library hand a hardened one, but *)
(* the method takes the index as it comes.                                 *)

InitUpper ==
    /\ bip_obj \in QueryRoots
    /\ call = NoCall
    /\ cache = NoCache
    /\ threads = [t \in Threads |-> NoThread]
    /\ getter = NoGetter
    /\ class_instance = NoInstances

CallPurposeGeneric ==
    /\ bip_obj # NoObj
    /\ \E purpose \in Purposes \cup {Unhardened(44)}, keep \in BOOLEAN :
          Completes("Purpose", [purpose |-> purpose],
                    PurposeGeneric(bip_obj, purpose), keep)

SpecUpper == InitUpper /\ [][CallPurposeGeneric \/ CallCoin \/ CallAccount]_vars

----------------------------------------------------------------------------
(* SCALE encoding of unsigned integers (substrate_scale_enc_uint.py) *)

\* The largest bytes_num of the encoders constructed
MaxBytesNum == 2
\* The values 0..MaxSmallValue are encoded, with the values around the
\* powers of two the range check is about
MaxSmallValue == 40
\* How far around a power of two the values go
Spread == 2

RECURSIVE Pow2(_)
Pow2(n) == IF n = 0 THEN 1 ELSE 2 * Pow2(n - 1)

\* SubstrateScaleUintEncoder.__init__: (2 << (bytes_num * 8)) - 1, where
\* value << n is value * 2^n
SubstrateScaleUintEncoder(bytes_num) ==
    [m_bytes_num |-> bytes_num, m_max_val |-> 2 * Pow2(bytes_num * 8) - 1]

\* IntegerUtils.ToBytes(value, bytes_num, endianness), unsigned: the bytes
\* of value, least significant first for "little"; OverflowError if value
\* is negative or does not fit bytes_num bytes
ToBytes(value, bytes_num, endianness) ==
    IF value < 0 \/ value >= Pow2(8 * bytes_num) THEN RaiseVal("OverflowError")
    ELSE LET little == [i \in 1..bytes_num |-> (value \div Pow2(8 * (i - 1))) % 256]
         IN  ReturnVal([bytes |-> IF endianness = "little" THEN little
                                  ELSE [i \in 1..bytes_num |-> little[bytes_num + 1 - i]]])

\* Encode writing the most significant byte first
Encode_BigEndian(enc, value) ==
    IF value < 0 \/ value > enc.m_max_val THEN RaiseVal("ValueError")
    ELSE ToBytes(value, enc.m_bytes_num, "big")

\* SubstrateScaleUintEncoder.Encode
Encode(enc, value) ==
    IF value < 0 \/ value > enc.m_max_val THEN RaiseVal("ValueError")
    ELSE ToBytes(value, enc.m_bytes_num, "little")

\* The integers the caller encodes
ScaleValues ==
    ((0 - Spread)..MaxSmallValue)
        \cup {Pow2(8 * n + k) + d : n \in 1..MaxBytesNum, k \in {0, 1}, d \in (0 - Spread)..Spread}

\* The caller constructs an encoder (SubstrateScaleU8Encoder is bytes_num 1,
\* SubstrateScaleU16Encoder bytes_num 2) and encodes a value with it
CallEncode ==
    \E bytes_num \in 1..MaxBytesNum, value \in ScaleValues :
        LET enc == SubstrateScaleUintEncoder(bytes_num)
            r == Encode(enc, value)
        IN  /\ call' = [op |-> "Encode", recv |-> enc, arg |-> [value |-> value],
                        err |-> r.err, ret |-> NoObj, idx |-> <<>>, val |-> r.val,
                        prev |-> Prev("Encode", enc, [value |-> value])]
            /\ UNCHANGED <<bip_obj, cache, threads, getter, class_instance>>

SpecScale == Init /\ [][CallEncode]_vars

----------------------------------------------------------------------------
(* Mnemonic words lists (mnemonic_utils.py).  A word or a line of a file   *)
(* is a sequence of characters; a file is the sequence of its lines as     *)
(* readlines() gives them, each with its line end.                         *)

\* The longest file loaded directly
MaxLines == 3
\* How often the file of one language is read at most
MaxReads == 2
\* The longest mnemonic whose language is looked for
MaxMnemonicLen == 2
\* words_num the getter asks for (2048 in the concrete getters)
WordsNum == 2

WhiteSpace == {" ", "\n"}

\* str.strip(): no whitespace at either end
RECURSIVE LStrip(_)
LStrip(s) == IF s # <<>> /\ Head(s) \in WhiteSpace THEN LStrip(Tail(s)) ELSE s

RECURSIVE RStrip(_)
RStrip(s) ==
    IF s # <<>> /\ s[Len(s)] \in WhiteSpace THEN RStrip(SubSeq(s, 1, Len(s) - 1)) ELSE s

Strip(s) == RStrip(LStrip(s))

\* The elements of a list
Range(list) == {list[i] : i \in 1..Len(list)}

\* MnemonicWordsList.__init__: the list, and the dictionary from each word
\* to its index (of a repeated word, the last index written)
MnemonicWordsList(words_list) ==
    [m_idx_to_words |-> words_list,
     m_words_to_idx |->
         [w \in Range(words_list) |->
             (CHOOSE i \in 1..Len(words_list) :
                 /\ words_list[i] = w
                 /\ \A k \in 1..Len(words_list) : words_list[k] = w => k <= i) - 1]]

\* A lookup that adds the missing word to the dictionary
GetWordIdx_AddMissing(list, word) ==
    IF word \in DOMAIN list.m_words_to_idx
    THEN [err |-> "none", val |-> [idx |-> list.m_words_to_idx[word]], self |-> list]
    ELSE [err |-> "ValueError", val |-> NoVal,
          self |-> [list EXCEPT !.m_words_to_idx = @ @@ (word :> Len(list.m_idx_to_words))]]

\* MnemonicWordsList.GetWordIdx: the outcome, and the object after the call
GetWordIdx(list, word) ==
    IF word \in DOMAIN list.m_words_to_idx
    THEN [err |-> "none", val |-> [idx |-> list.m_words_to_idx[word]], self |-> list]
    ELSE [err |-> "ValueError", val |-> NoVal, self |-> list]

\* The lines of a file that are kept: stripped, the blank ones dropped
RECURSIVE StrippedLines(_)
StrippedLines(lines) ==
    IF lines = <<>> THEN <<>>
    ELSE IF Strip(Head(lines)) # <<>>
        THEN <<Strip(Head(lines))>> \o StrippedLines(Tail(lines))
    ELSE StrippedLines(Tail(lines))

\* LoadFile that keeps the lines as they were read
LoadFile_NoStrip(lines, words_num) ==
    IF Len(lines) # words_num THEN RaiseVal("ValueError")
    ELSE ReturnVal(MnemonicWordsList(lines))

\* MnemonicWordsListFileReader.LoadFile, on the lines of the file at the path
LoadFile(lines, words_num) ==
    LET words_list == StrippedLines(lines)
    IN  IF Len(words_list) # words_num THEN RaiseVal("ValueError")
        ELSE ReturnVal(MnemonicWordsList(words_list))

\* The files LoadFile is called on, and the lines they are made of
Files ==
    LET FileLines == {<<"a", "\n">>, <<" ", "b", " ", "\n">>, <<"\n">>, <<" ", "\n">>,
                      <<"a", " ", "b", "\n">>, <<"b">>}
    IN  UNION {[1..n -> FileLines] : n \in 0..MaxLines}

\* The languages, in the order of the enumeration
Langs == <<"lang1", "lang2", "lang3">>
LangSet == Range(Langs)

\* The words files of the languages: with the words a and b, with the words
\* b and "a b" around a blank line, and with one word too few
GetterFiles ==
    {<<(<<"a", "\n">>), (<<" ", "b", " ", "\n">>)>>,
     <<(<<"b">>), (<<"\n">>), (<<"a", " ", "b", "\n">>)>>,
     <<(<<"a", "\n">>), (<<" ", "\n">>)>>}

\* The words looked up and the mnemonics (Mnemonic.ToList())
Words == {<<"a">>, <<"b">>, <<"a", " ", "b">>}
Mnemonics == UNION {[1..n -> Words] : n \in 0..MaxMnemonicLen}

\* _LoadWordsList reading the file on every request
LoadWordsList_NoCache(g, lang, lines, words_num) ==
    LET r == LoadFile(lines, words_num)
        read == [g EXCEPT !.reads[lang] = @ + 1]
    IN  IF r.err # "none" THEN [err |-> r.err, val |-> NoVal, getter |-> read]
        ELSE LET list == [id |-> <<lang, read.reads[lang]>>,
                          m_idx_to_words |-> r.val.m_idx_to_words,
                          m_words_to_idx |-> r.val.m_words_to_idx]
             IN  [err |-> "none", val |-> list,
                  getter |-> [read EXCEPT !.m_words_lists = (lang :> list) @@ @]]

\* _LoadWordsList storing an empty list under the language before the file
\* is loaded, and leaving it there when LoadFile raises
LoadWordsList_StoreFirst(g, lang, lines, words_num) ==
    IF lang \in DOMAIN g.m_words_lists
    THEN [err |-> "none", val |-> g.m_words_lists[lang], getter |-> g]
    ELSE LET r == LoadFile(lines, words_num)
             read == [g EXCEPT !.reads[lang] = @ + 1]
             empty == [id |-> <<lang, read.reads[lang]>>,
                       m_idx_to_words |-> <<>>,
                       m_words_to_idx |-> MnemonicWordsList(<<>>).m_words_to_idx]
         IN  IF r.err # "none"
                 THEN [err |-> r.err, val |-> NoVal,
                       getter |-> [read EXCEPT !.m_words_lists = @ @@ (lang :> empty)]]
             ELSE LET list == [id |-> <<lang, read.reads[lang]>>,
                               m_idx_to_words |-> r.val.m_idx_to_words,
                               m_words_to_idx |-> r.val.m_words_to_idx]
                  IN  [err |-> "none", val |-> list,
                       getter |-> [read EXCEPT !.m_words_lists = @ @@ (lang :> list)]]

\* MnemonicWordsListGetterBase._LoadWordsList: the list of the language if
\* m_words_lists has it; otherwise the file is read, and the list LoadFile
\* returns (a new object) is stored under the language and returned.  The
\* exception of LoadFile propagates with nothing stored.
LoadWordsList(g, lang, lines, words_num) ==
    IF lang \in DOMAIN g.m_words_lists
    THEN [err |-> "none", val |-> g.m_words_lists[lang], getter |-> g]
    ELSE LET r == LoadFile(lines, words_num)
             read == [g EXCEPT !.reads[lang] = @ + 1]
         IN  IF r.err # "none" THEN [err |-> r.err, val |-> NoVal, getter |-> read]
             ELSE LET list == [id |-> <<lang, read.reads[lang]>>,
                               m_idx_to_words |-> r.val.m_idx_to_words,
                               m_words_to_idx |-> r.val.m_words_to_idx]
                  IN  [err |-> "none", val |-> list,
                       getter |-> [read EXCEPT !.m_words_lists = @ @@ (lang :> list)]]

\* GetByLanguage of a concrete getter: _LoadWordsList with the file of the
\* language and the number of words of the lists
GetByLanguage(g, lang) == LoadWordsList(g, lang, g.files[lang], WordsNum)

\* Whether the lookup of every word of the mnemonic returns
AllWordsFound(list, words) ==
    \A i \in 1..Len(words) : GetWordIdx(list, words[i]).err = "none"

\* _FindLanguageGeneric taking the language of the first word
RECURSIVE FindLanguageGeneric_FirstWord(_, _, _)
FindLanguageGeneric_FirstWord(g, mnemonic, i) ==
    IF i > Len(Langs) THEN [err |-> "ValueError", val |-> NoVal, getter |-> g]
    ELSE LET r == GetByLanguage(g, Langs[i])
         IN  IF r.err = "none" /\ AllWordsFound(r.val, IF mnemonic = <<>> THEN <<>> ELSE <<Head(mnemonic)>>)
                 THEN [err |-> "none", val |-> [words_list |-> r.val, lang |-> Langs[i]],
                       getter |-> r.getter]
             ELSE FindLanguageGeneric_FirstWord(r.getter, mnemonic, i + 1)

\* MnemonicWordsListFinderBase._FindLanguageGeneric, from the i-th language
\* of the enumeration on: the list of the language is got and every word
\* looked up; a ValueError of either goes on with the next language
RECURSIVE FindLanguageGeneric(_, _, _)
FindLanguageGeneric(g, mnemonic, i) ==
    IF i > Len(Langs) THEN [err |-> "ValueError", val |-> NoVal, getter |-> g]
    ELSE LET r == GetByLanguage(g, Langs[i])
         IN  IF r.err = "none" /\ AllWordsFound(r.val, mnemonic)
                 THEN [err |-> "none", val |-> [words_list |-> r.val, lang |-> Langs[i]],
                       getter |-> r.getter]
             ELSE FindLanguageGeneric(r.getter, mnemonic, i + 1)

\* The getter instance is created, with the words files as they are on disk
InitMnemonic ==
    /\ bip_obj = NoObj
    /\ call = NoCall
    /\ cache = NoCache
    /\ threads = [t \in Threads |-> NoThread]
    /\ \E files \in [LangSet -> GetterFiles] :
          getter = [files |-> files, m_words_lists |-> [lang \in {} |-> NoVal],
                    reads |-> [lang \in LangSet |-> 0]]
    /\ class_instance = NoInstances

\* A call on the getter or on one of its lists completes; no file is read
\* more often than MaxReads times
Got(op, recv, arg, r) ==
    /\ \A lang \in LangSet : r.getter.reads[lang] <= MaxReads
    /\ call' = [op |-> op, recv |-> recv, arg |-> arg, err |-> r.err, ret |-> NoObj,
                idx |-> <<>>, val |-> r.val, prev |-> Prev(op, recv, arg)]
    /\ getter' = r.getter
    /\ UNCHANGED <<bip_obj, cache, threads, class_instance>>

CallGetByLanguage ==
    \E lang \in LangSet :
        Got("GetByLanguage", NoObj, [lang |-> lang], GetByLanguage(getter, lang))

\* A word is looked up in a list the getter has returned
CallGetWordIdx ==
    \E lang \in DOMAIN getter.m_words_lists, word \in Words :
        LET list == getter.m_words_lists[lang]
            r == GetWordIdx(list, word)
        IN  Got("GetWordIdx", list, [word |-> word],
                [err |-> r.err, val |-> r.val,
                 getter |-> [getter EXCEPT !.m_words_lists[lang] = r.self]])

CallFindLanguage ==
    \E mnemonic \in Mnemonics :
        Got("FindLanguage", NoObj, [mnemonic |-> mnemonic],
            FindLanguageGeneric(getter, mnemonic, 1))

SpecMnemonic ==
    InitMnemonic /\ [][CallGetByLanguage \/ CallGetWordIdx \/ CallFindLanguage]_vars

\* The caller has a file and the number of words it expects in it
InitWordsFile ==
    /\ bip_obj = NoObj
    /\ \E lines \in Files, words_num \in 0..MaxLines :
          call = [NoCall EXCEPT !.arg = [lines |-> lines, words_num |-> words_num]]
    /\ cache = NoCache
    /\ threads = [t \in Threads |-> NoThread]
    /\ getter = NoGetter
    /\ class_instance = NoInstances

\* LoadFile is called on them
CallLoadFile ==
    /\ call.op = "none"
    /\ LET r == LoadFile(call.arg.lines, call.arg.words_num)
       IN  call' = [call EXCEPT !.op = "LoadFile", !.err = r.err, !.val = r.val]
    /\ UNCHANGED <<bip_obj, cache, threads, getter, class_instance>>

SpecWordsFile == InitWordsFile /\ [][CallLoadFile]_vars

----------------------------------------------------------------------------
(* A words list, looked up by word and by index *)

\* MnemonicWordsList.GetWordAtIdx: self.m_idx_to_words[word_idx], a list
\* subscript (an index below 0 counts from the end, one outside the list
\* raises IndexError)
GetWordAtIdx(list, word_idx) ==
    LET n == Len(list.m_idx_to_words)
    IN  IF word_idx \in 0..(n - 1)
            THEN ReturnVal([word |-> list.m_idx_to_words[word_idx + 1]])
        ELSE IF word_idx \in (0 - n)..(0 - 1)
            THEN ReturnVal([word |-> list.m_idx_to_words[n + word_idx + 1]])
        ELSE RaiseVal("IndexError")

\* The caller has a list LoadFile returned
InitWordsList ==
    /\ bip_obj = NoObj
    /\ \E lines \in Files, words_num \in 0..MaxLines :
          LET r == LoadFile(lines, words_num)
          IN  r.err = "none" /\ call = [NoCall EXCEPT !.recv = r.val]
    /\ cache = NoCache
    /\ threads = [t \in Threads |-> NoThread]
    /\ getter = NoGetter
    /\ class_instance = NoInstances

\* A call on the list completes; the caller keeps the list
Looked(op, arg, r) ==
    /\ call' = [op |-> op, recv |-> call.recv, arg |-> arg, err |-> r.err, ret |-> NoObj,
                idx |-> <<>>, val |-> r.val, prev |-> Prev(op, call.recv, arg)]
    /\ UNCHANGED <<bip_obj, cache, threads, getter, class_instance>>

CallGetWordIdxOf ==
    \E word \in Words :
        LET r == GetWordIdx(call.recv, word)
        IN  Looked("GetWordIdx", [word |-> word], [err |-> r.err, val |-> r.val])

CallGetWordAtIdx ==
    \E word_idx \in (0 - 1)..MaxLines :
        Looked("GetWordAtIdx", [word_idx |-> word_idx], GetWordAtIdx(call.recv, word_idx))

SpecWordsList == InitWordsList /\ [][CallGetWordIdxOf \/ CallGetWordAtIdx]_vars

----------------------------------------------------------------------------
(* The global instances of the getter classes *)

\* Instance() is called on a getter class
CallInstance ==
    \E cls \in {GetterBase} \cup ConcreteGetters :
        LET r == GetterInstance(class_instance, cls)
        IN  /\ call' = [op |-> "Instance", recv |-> NoObj, arg |-> [cls |-> cls],
                        err |-> r.err, ret |-> NoObj, idx |-> <<>>, val |-> r.val,
                        prev |-> Prev("Instance", NoObj, [cls |-> cls])]
            /\ class_instance' = r.attrs
            /\ UNCHANGED <<bip_obj, cache, threads, getter>>

SpecSingleton == Init /\ [][CallInstance]_vars

----------------------------------------------------------------------------
(* Vocabulary of the properties *)

SingleStepOps == {"Purpose", "Coin", "Account", "Change", "AddressIndex"}
DerivationOps == SingleStepOps \cup {"DeriveDefaultPath"}

\* The level each operation is legal at (the transition table)
RequiredLevel(op) ==
    CASE op = "Purpose" -> MASTER
      [] op = "Coin" -> PURPOSE
      [] op = "Account" -> COIN
      [] op = "Change" -> ACCOUNT
      [] op = "AddressIndex" -> CHANGE
      [] op = "DeriveDefaultPath" -> MASTER

Depth(obj) == obj.m_bip32.depth

\* The last call was a derivation call with well-typed arguments
DerivationCall ==
    /\ call.op \in DerivationOps
    /\ call.op = "Change" => call.arg.change_type \in Bip44Changes

SingleStepCall == DerivationCall /\ call.op \in SingleStepOps

Unsupported(obj) == obj.m_bip32.cls # Secp256k1

\* The child index an operation derives with, by the rules of the BIP44
\* levels: purpose as given, coin and account hardened, change and address
\* index hardened on the curves without unhardened private derivation
UsedIndex ==
    CASE call.op = "Purpose" -> call.arg.purpose
      [] call.op = "Coin" -> Index(1, call.recv.m_coin_conf.coin_idx)
      [] call.op = "Account" -> Index(1, call.arg.acc_idx.lo)
      [] call.op = "Change" ->
            Index(IF Unsupported(call.recv) THEN 1 ELSE 0, call.arg.change_type.val)
      [] call.op = "AddressIndex" ->
            IF Unsupported(call.recv) THEN Index(1, call.arg.addr_idx.lo)
            ELSE call.arg.addr_idx

----------------------------------------------------------------------------
(* C1 *)

\* C1: a derivation operation called on an object that is not at the
\* operation's required level raises Bip44DepthError and returns no object,
\* for private and public-only objects alike.
C1_LevelGuard ==
    (DerivationCall /\ Depth(call.recv) # RequiredLevel(call.op))
        => (call.err = "Bip44DepthError" /\ call.ret = NoObj /\ call.idx = <<>>)

C1_Witness ==
    /\ call.op = "AddressIndex"
    /\ IsPublicOnly(call.recv)
    /\ Depth(call.recv) = ADDRESS_INDEX
    /\ call.err = "Bip44DepthError"

----------------------------------------------------------------------------
(* C2 *)

\* C2: a successful Purpose, Coin, Account, Change or AddressIndex returns
\* an object exactly one level below the receiver, the receiver being at the
\* operation's own level, so the levels are visited in order; no operation
\* returns an object at or above the receiver's depth.
C2_DepthMonotone ==
    (DerivationCall /\ call.err = "none")
        => /\ Depth(call.ret) > Depth(call.recv)
           /\ call.op \in SingleStepOps =>
                 /\ Depth(call.recv) = RequiredLevel(call.op)
                 /\ Depth(call.ret) = Depth(call.recv) + 1

C2_Witness ==
    /\ call.op = "AddressIndex"
    /\ call.err = "none"
    /\ Depth(call.recv) = CHANGE
    /\ Depth(call.ret) = ADDRESS_INDEX

----------------------------------------------------------------------------
(* C3 *)

ValidDepth(obj) ==
    \/ obj = NoObj
    \/ IF IsPublicOnly(obj) THEN Depth(obj) \in ACCOUNT..ADDRESS_INDEX
                            ELSE Depth(obj) \in MASTER..ADDRESS_INDEX

\* C3: every object that exists (held by the caller, returned by the last
\* call or its receiver) has a depth in 0..5 if private and in 3..5 if
\* public-only.
C3_DepthInvariant ==
    /\ ValidDepth(bip_obj)
    /\ ValidDepth(call.ret)
    /\ ValidDepth(call.recv)

C3_Witness ==
    /\ call.op = "AddressIndex"
    /\ call.err = "none"
    /\ IsPublicOnly(call.ret)
    /\ Depth(call.ret) = ADDRESS_INDEX
    /\ bip_obj = call.ret

----------------------------------------------------------------------------
(* C4 *)

\* The last call built an object from a well-formed extended key
FromExKeyCall == call.op = "FromExtendedKey" /\ call.arg.key_str.ok

----------------------------------------------------------------------------
(* C5 *)

\* The last call tried to build an object from a well-formed public-only
\* extended key of a level below the account
PublicBelowAccountKey ==
    /\ FromExKeyCall
    /\ call.arg.key_str.pub
    /\ call.arg.key_str.depth < ACCOUNT

----------------------------------------------------------------------------
(* C6 *)

\* The last call was a single-step derivation on a public-only object
PublicSingleStep == SingleStepCall /\ IsPublicOnly(call.recv)

\* C6 as claimed: on a public-only object at ACCOUNT, CHANGE or ADDRESS_INDEX
\* a derivation call with a non-hardened child index succeeds and returns a
\* child one level deeper, one with a hardened child index fails.
C6_Original ==
    (PublicSingleStep /\ Depth(call.recv) >= ACCOUNT)
        => IF IsHardened(UsedIndex)
           THEN call.err # "none"
           ELSE call.err = "none" /\ Depth(call.ret) = Depth(call.recv) + 1

\* The key a call at the right level derives
DerivedChild ==
    LET b == call.recv.m_bip32
    IN  Bip32(b.depth + 1, b.pub, b.cls, b.root, Append(b.path, UsedIndex))

\* C6 as amended: on a public-only object, an operation called at its own
\* level (Change at ACCOUNT, AddressIndex at CHANGE) fails with Bip32KeyError
\* if its child index is hardened or the derived key is invalid, and
\* otherwise returns a public-only child one level deeper; at any other
\* level, ADDRESS_INDEX included, the call fails with Bip44DepthError.
C6_PublicDerivation ==
    PublicSingleStep =>
        IF Depth(call.recv) # RequiredLevel(call.op)
        THEN call.err = "Bip44DepthError" /\ call.ret = NoObj
        ELSE IF IsHardened(UsedIndex) \/ IsInvalidDerivedKey(DerivedChild)
        THEN call.err = "Bip32KeyError" /\ call.ret = NoObj
        ELSE /\ call.err = "none"
             /\ call.ret = Bip44(DerivedChild, call.recv.m_coin_conf)
             /\ IsPublicOnly(call.ret)
             /\ Depth(call.ret) = Depth(call.recv) + 1

C6_Witness ==
    /\ PublicSingleStep
    /\ call.op = "AddressIndex"
    /\ Depth(call.recv) = CHANGE
    /\ ~IsHardened(UsedIndex)
    /\ call.err = "none"
    /\ IsPublicOnly(call.ret)
    /\ Depth(call.ret) = ADDRESS_INDEX

----------------------------------------------------------------------------
(* C7 *)

\* C7 as claimed: a public-only object asked for an operation that derives
\* with a hardened index fails with Bip32KeyError and not Bip44DepthError.
C7_Original ==
    (PublicSingleStep /\ IsHardened(UsedIndex)) => call.err = "Bip32KeyError"

\* C7 as amended: a public-only object asked for an operation that derives
\* with a hardened index fails with Bip32KeyError when the operation is
\* called at its own level (Change at ACCOUNT, AddressIndex at CHANGE) and
\* with Bip44DepthError at any other level; so Purpose, Coin and Account
\* always fail with Bip44DepthError on a public-only object.
C7_HardenedOnPublic ==
    (PublicSingleStep /\ IsHardened(UsedIndex))
        => /\ call.ret = NoObj
           /\ call.err = IF Depth(call.recv) = RequiredLevel(call.op)
                         THEN "Bip32KeyError" ELSE "Bip44DepthError"
           /\ call.op \in {"Purpose", "Coin", "Account"} => call.err = "Bip44DepthError"

C7_Witness ==
    /\ PublicSingleStep
    /\ call.op = "Change"
    /\ Unsupported(call.recv)
    /\ Depth(call.recv) = ACCOUNT
    /\ call.idx = <<Index(1, CHAIN_EXT)>>
    /\ call.err = "Bip32KeyError"

----------------------------------------------------------------------------
(* C8 *)

\* C8: Change(change_type) at ACCOUNT derives with the index
\* int(change_type) + 2^31 if the curve does not support unhardened private
\* derivation and with int(change_type) if it does.
C8_ChangeIndex ==
    (DerivationCall /\ call.op = "Change" /\ Depth(call.recv) = ACCOUNT)
        => LET v == call.arg.change_type.val
               i == IF Unsupported(call.recv) THEN Index(1, v) ELSE Index(0, v)
           IN  /\ call.idx = <<i>>
               /\ call.err = "none" =>
                     call.ret.m_bip32.path = Append(call.recv.m_bip32.path, i)

C8_Witness ==
    /\ DerivationCall
    /\ call.op = "Change"
    /\ Depth(call.recv) = ACCOUNT
    /\ Unsupported(call.recv)
    /\ call.arg.change_type.val = CHAIN_INT
    /\ call.idx = <<Index(1, 1)>>
    /\ call.err = "none"

----------------------------------------------------------------------------
(* C9 *)

\* r, then the operation Op on the object r returned: an exception ends the
\* chain, the indices handed to ChildKey accumulate
Then(r, Op(_)) ==
    IF r.err # "none" THEN r
    ELSE LET n == Op(r.ret) IN [n EXCEPT !.idx = r.idx \o n.idx]

AccountZero(obj) == AccountGeneric(obj, Unhardened(0))
ChangeExt(obj) == ChangeGeneric(obj, [is_enum |-> TRUE, val |-> CHAIN_EXT])
AddressIndexZero(obj) == AddressIndexGeneric(obj, Unhardened(0))

\* m.Purpose().Coin().Account(0).Change(CHAIN_EXT).AddressIndex(0)
ExplicitChain(m, purpose) ==
    Then(Then(Then(Then(PurposeGeneric(m, purpose),
                        CoinGeneric), AccountZero), ChangeExt), AddressIndexZero)

\* The last call was DeriveDefaultPath on a master object
DefaultPathCall == call.op = "DeriveDefaultPath" /\ Depth(call.recv) = MASTER

\* The call's outcome is the outcome r: same exception or same returned
\* object, through the same child indices
SameOutcome(r) == call.err = r.err /\ call.ret = r.ret /\ call.idx = r.idx

MatchingDefPath(coin_conf) ==
    IF coin_conf.bip32_cls = Secp256k1 THEN NOT_HARDENED_DEF_PATH ELSE HARDENED_DEF_PATH

----------------------------------------------------------------------------
(* C10 *)

\* C10 as claimed: for every coin configuration, DeriveDefaultPath on a
\* master object returns an object at ADDRESS_INDEX.
C10_Original ==
    (DefaultPathCall /\ call.err = "none") => Depth(call.ret) = ADDRESS_INDEX

\* C10 as amended: DeriveDefaultPath on a master object, when it returns,
\* returns an object at depth 2 + n, n being the number of elements of the
\* configuration's default path: at ADDRESS_INDEX exactly when the default
\* path has three elements (as in all of Bip84Conf); with more than three
\* elements the call raises.
C10_DefaultPathLevel ==
    DefaultPathCall =>
        LET n == Len(call.recv.m_coin_conf.def_path)
        IN  /\ call.err = "none" =>
                  /\ Depth(call.ret) = 2 + n
                  /\ Depth(call.ret) = ADDRESS_INDEX <=> n = 3
            /\ n > 3 => (call.err # "none" /\ call.ret = NoObj)
            /\ call.recv.m_coin_conf \in Bip84Conf =>
                  (call.err = "none" => Depth(call.ret) = ADDRESS_INDEX)

C10_Witness ==
    /\ DefaultPathCall
    /\ call.recv.m_coin_conf \in Bip84Conf
    /\ call.err = "none"
    /\ Depth(call.ret) = ADDRESS_INDEX

----------------------------------------------------------------------------
(* C11 *)

\* The child indices DeriveDefaultPath is to derive with, in order: the
\* purpose, the hardened coin index, the elements of the default path
PlannedIndices(obj, purpose) ==
    LET def_path == obj.m_coin_conf.def_path
    IN  <<purpose, Index(1, obj.m_coin_conf.coin_idx)>>
            \o [i \in 1..Len(def_path) |-> PathElemIndex(def_path[i])]

\* ChildKey along a sequence of indices, stopping at the first failure
RECURSIVE ChildKeys(_, _)
ChildKeys(b, indices) ==
    IF indices = <<>> THEN Bip32Ok(b, <<>>)
    ELSE LET r == ChildKey(b, Head(indices))
         IN  IF r.err # "none" THEN r ELSE ChildKeys(r.bip32, Tail(indices))

\* C11: DeriveDefaultPath on a master object derives with the purpose, then
\* the coin index, then the default path elements from left to right; every
\* step before the last one attempted succeeded; if it raises, either the
\* last step attempted is the one that failed (its error is the one raised)
\* or every step was made and the constructor refused the depth, and no
\* object is returned; if it returns, every step was made.
C11_AtomicDefaultPath ==
    DefaultPathCall
        => LET plan == PlannedIndices(call.recv, call.arg.purpose)
               n == Len(call.idx)
               before == ChildKeys(call.recv.m_bip32, SubSeq(plan, 1, n - 1))
               upto == ChildKeys(call.recv.m_bip32, call.idx)
           IN  /\ n >= 1 /\ n <= Len(plan)
               /\ call.idx = SubSeq(plan, 1, n)
               /\ before.err = "none"
               /\ call.err = "none"
                     => n = Len(plan) /\ upto.err = "none" /\ call.ret.m_bip32 = upto.bip32
               /\ call.err # "none"
                     => /\ call.ret = NoObj
                        /\ \/ upto.err = call.err
                           \/ /\ upto.err = "none" /\ n = Len(plan)
                              /\ call.err = "Bip44DepthError"

\* DeriveDefaultPath raised at the coin step, after the purpose step
C11_Witness ==
    /\ DefaultPathCall
    /\ call.err = "Bip32KeyError"
    /\ Len(call.idx) = 2

----------------------------------------------------------------------------
(* C12 *)

----------------------------------------------------------------------------
(* C13 *)

----------------------------------------------------------------------------
(* C16 *)

\* C16: Change called with an argument that is not a Bip44Changes member
\* (the plain integers 0 and 1 included) raises TypeError, whatever the
\* level of the object: no child index is derived with, no object is
\* returned, and the caller holds the object it held.
C16_ChangeTypeError ==
    call.op = "Change" /\ call.arg.change_type \notin Bip44Changes
        => /\ call.err = "TypeError"
           /\ call.idx = <<>>
           /\ call.ret = NoObj
           /\ bip_obj = call.recv

\* Change(1) with a plain integer on an object at CHANGE level
C16_Witness ==
    /\ call.op = "Change"
    /\ call.arg.change_type \in PlainInts
    /\ call.arg.change_type.val = 1
    /\ Depth(call.recv) = CHANGE
    /\ call.err = "TypeError"

----------------------------------------------------------------------------
(* C18 *)

\* An object as FromSeed or FromPrivateKey returns it
FreshMaster(obj) ==
    \E coin_conf \in CoinConfs :
        \/ \E seed_bytes \in Seeds : FromSeed(seed_bytes, coin_conf) = Return(obj, <<>>)
        \/ \E priv_key \in PrivateKeys : FromPrivateKey(priv_key, coin_conf) = Return(obj, <<>>)

\* C18: an object returned by FromSeed or FromPrivateKey is at level MASTER
\* and not public-only.  On such an object Purpose and DeriveDefaultPath
\* pass the level check (the purpose index is derived with, and a failure,
\* if any, comes from a later step), while Coin, Account, Change and
\* AddressIndex raise Bip44DepthError without deriving.
C18_InitialState ==
    /\ call.op \in {"FromSeed", "FromPrivateKey"} /\ call.err = "none"
          => /\ IsLevel(call.ret, MASTER)
             /\ ~IsPublicOnly(call.ret)
             /\ call.ret.m_bip32.path = <<>>
    /\ DerivationCall /\ FreshMaster(call.recv)
          => IF call.op \in {"Purpose", "DeriveDefaultPath"}
             THEN /\ Len(call.idx) >= 1
                  /\ call.idx[1] = call.arg.purpose
                  /\ call.op = "Purpose" => call.err # "Bip44DepthError"
             ELSE /\ call.err = "Bip44DepthError"
                  /\ call.idx = <<>>
                  /\ call.ret = NoObj

\* Coin refused on the object FromPrivateKey returned
C18_Witness ==
    /\ call.op = "Coin"
    /\ call.recv.m_bip32.root \in PrivateKeys
    /\ FreshMaster(call.recv)
    /\ call.err = "Bip44DepthError"

----------------------------------------------------------------------------
(* C20 *)

\* C20: Purpose, Coin, Account, Change and AddressIndex hand at most one
\* child index to the key derivation, the index of the operation; when that
\* derivation fails, its error is the one raised and no object is returned.
C20_NoRetry ==
    call.op \in SingleStepOps
        => /\ Len(call.idx) <= 1
           /\ Len(call.idx) = 1
                 => /\ DerivationCall
                    /\ call.idx[1] = UsedIndex
                    /\ LET r == ChildKey(call.recv.m_bip32, call.idx[1])
                       IN  r.err # "none" => call.err = r.err /\ call.ret = NoObj

\* Coin failed in the derivation with the coin index
C20_Witness ==
    /\ call.op = "Coin"
    /\ call.err = "Bip32KeyError"
    /\ ~IsPublicOnly(call.recv)
    /\ call.idx = <<Index(1, call.recv.m_coin_conf.coin_idx)>>

----------------------------------------------------------------------------
(* C15 *)

\* C15: IsLevel called with a Bip44Levels member returns whether the depth
\* of the object is that level, so that it is true of exactly one level;
\* called with anything else (a plain integer 0..5) it raises TypeError;
\* either way the caller holds the object unchanged.
C15_IsLevel ==
    call.op = "IsLevel"
        => LET level == call.arg.level
           IN  /\ bip_obj = call.recv
               /\ level.is_level
                     => /\ call.err = "none"
                        /\ call.val.bool <=> Depth(call.recv) = level.val
               /\ ~level.is_level => call.err = "TypeError" /\ call.val = NoVal
               /\ Cardinality({l \in Bip44Levels :
                       IsLevelMethod(call.recv, [is_level |-> TRUE, val |-> l]).val.bool}) = 1

\* IsLevel(Bip44Levels.CHANGE) returned true
C15_Witness ==
    /\ call.op = "IsLevel"
    /\ call.arg.level = [is_level |-> TRUE, val |-> CHANGE]
    /\ call.err = "none"
    /\ call.val.bool

----------------------------------------------------------------------------
(* C17 *)

----------------------------------------------------------------------------
(* C19 *)

\* The last call was the same key access as the call before
KeyAccessAgain == call.op \in {"PublicKey", "PrivateKey"} /\ call.prev.same

\* C19: PrivateKey raises Bip32KeyError on a public-only object, on the
\* first call and on every call after it (no cache entry is ever made for
\* it), and returns the private key of a private object on every call;
\* PublicKey returns the public key of every object; the caller holds the
\* object unchanged.
C19_KeyAccess ==
    /\ call.op = "PrivateKey"
          => IF IsPublicOnly(call.recv)
             THEN call.err = "Bip32KeyError" /\ call.val = NoVal
             ELSE /\ call.err = "none"
                  /\ call.val.m_priv_key.priv
                  /\ call.val.m_priv_key.root = call.recv.m_bip32.root
                  /\ call.val.m_priv_key.path = call.recv.m_bip32.path
    /\ call.op = "PublicKey"
          => /\ call.err = "none"
             /\ ~call.val.m_pub_key.priv
             /\ call.val.m_pub_key.root = call.recv.m_bip32.root
             /\ call.val.m_pub_key.path = call.recv.m_bip32.path
    /\ call.op \in {"PublicKey", "PrivateKey"} => bip_obj = call.recv
    /\ \A m \in KeyOps : \A e \in Entries(m, cache) :
           e.val # NoVal /\ (m = "PrivateKey" => ~IsPublicOnly(e.self))

\* PrivateKey raised again on a public-only object
C19_Witness ==
    /\ KeyAccessAgain
    /\ call.op = "PrivateKey"
    /\ IsPublicOnly(call.recv)
    /\ call.err = "Bip32KeyError"
    /\ call.prev.err = "Bip32KeyError"

----------------------------------------------------------------------------
(* C14 *)

\* What a call returns when no other call runs: the derivation method on
\* the object, or the key access through an empty cache
Alone(op, obj, arg) ==
    IF op \in KeyOps
    THEN LET r == LruCache(op, obj, KeyFunction(op, obj), NoCache)
         IN  [err |-> r.err, ret |-> NoObj, idx |-> <<>>, val |-> r.val]
    ELSE LET r == Derive(op, obj, arg)
         IN  [err |-> r.err, ret |-> r.ret, idx |-> r.idx, val |-> NoVal]

\* C14: when threads call the derivation methods, PublicKey and PrivateKey
\* of an object they share, in any interleaving of their steps, the object
\* stays as it was when each call began, and every completed call has the
\* outcome it has when run alone; an object returned is not the shared one.
C14_ThreadSafe ==
    \A t \in Threads :
        /\ ~At(t, "idle") => threads[t].recv = bip_obj
        /\ At(t, "done")
              => LET th == threads[t]
                     alone == Alone(th.op, bip_obj, th.arg)
                 IN  /\ th.err = alone.err
                     /\ th.ret = alone.ret
                     /\ th.idx = alone.idx
                     /\ th.val = alone.val
                     /\ th.ret # bip_obj

\* Two threads missed the cache of PublicKey together, and one has stored
\* its value and completed while the other has still to store its own
C14_Witness ==
    \E t, u \in Threads :
        /\ At(t, "done") /\ threads[t].op = "PublicKey"
        /\ At(u, "store") /\ threads[u].op = "PublicKey"
        /\ cache # NoCache

----------------------------------------------------------------------------
(* C21 *)

\* C21: with the caches shared by every instance and holding at most
\* MaxCacheSize entries each, after any sequence of PublicKey and PrivateKey
\* calls on any of the instances, a call has the outcome the undecorated
\* method has on that instance (the key of its own Bip32 object, or the
\* error), a call repeated on the same instance has the same outcome as
\* before, every entry holds the key of the instance it is keyed by, no
\* instance has two entries and no cache holds more than MaxCacheSize.
C21_MemoizationSafe ==
    /\ call.op \in KeyOps
          => /\ call.recv \in Instances
             /\ call.err = KeyFunction(call.op, call.recv).err
             /\ call.val = KeyFunction(call.op, call.recv).val
             /\ call.err = "none" /\ call.op = "PublicKey"
                   => /\ call.val.m_pub_key.root = call.recv.m_bip32.root
                      /\ call.val.m_pub_key.path = call.recv.m_bip32.path
             /\ call.err = "none" /\ call.op = "PrivateKey"
                   => /\ call.val.m_priv_key.root = call.recv.m_bip32.root
                      /\ call.val.m_priv_key.path = call.recv.m_bip32.path
             /\ call.prev.same => call.err = call.prev.err /\ call.val = call.prev.val
    /\ \A m \in KeyOps :
          /\ Len(cache[m].entries) <= MaxCacheSize
          /\ \A i, j \in 1..Len(cache[m].entries) :
                cache[m].entries[i].self = cache[m].entries[j].self => i = j
          /\ \A e \in Entries(m, cache) : e.val = KeyFunction(m, e.self).val

\* PublicKey returned the instance's key after the cache of PublicKey had
\* dropped an entry, while the cache is full of the entries of other
\* instances and of this one
C21_Witness ==
    /\ call.op = "PublicKey"
    /\ call.err = "none"
    /\ call.val = PublicKey(call.recv).val
    /\ cache["PublicKey"].evicted
    /\ Len(cache["PublicKey"].entries) = MaxCacheSize
    /\ \E e \in Entries("PublicKey", cache) : e.self # call.recv /\ e.val # call.val

----------------------------------------------------------------------------
(* C22, C23 *)

\* The largest value bytes_num bytes hold
MaxUnsigned(bytes_num) == Pow2(8 * bytes_num) - 1

\* C22, as stated: Encode of the encoder of N bytes raises ValueError for
\* every value below 0 and every value above 2^(8N) - 1, and raises nothing
\* for the values from 0 to 2^(8N) - 1.
C22_Original ==
    call.op = "Encode"
       => LET v == call.arg.value
              N == call.recv.m_bytes_num
          IN  IF v < 0 \/ v > MaxUnsigned(N)
              THEN call.err = "ValueError"
              ELSE call.err = "none"

\* The interpretation of bytes as a little-endian unsigned integer
RECURSIVE FromLittleEndian(_)
FromLittleEndian(bytes) ==
    IF bytes = <<>> THEN 0 ELSE Head(bytes) + 256 * FromLittleEndian(Tail(bytes))

\* C23: a value Encode accepts is returned as exactly N bytes, which read as
\* a little-endian unsigned integer give the value back; no other value has
\* the same encoding.
C23_LittleEndian ==
    call.op = "Encode" /\ call.err = "none"
       => LET v == call.arg.value
              N == call.recv.m_bytes_num
              bytes == call.val.bytes
          IN  /\ Len(bytes) = N
              /\ \A i \in 1..N : bytes[i] \in 0..255
              /\ FromLittleEndian(bytes) = v
              /\ \A w \in ScaleValues \ {v} :
                    LET r == Encode(call.recv, w)
                    IN  r.err = "none" => r.val.bytes # bytes

\* A value with a non-zero high byte was encoded by the encoder of two bytes
C23_Witness ==
    /\ call.op = "Encode"
    /\ call.err = "none"
    /\ call.recv.m_bytes_num = 2
    /\ call.arg.value > 256
    /\ call.val.bytes[1] # call.val.bytes[2]

----------------------------------------------------------------------------
(* C24 *)

\* C24: in every step, a language whose words list the getter holds keeps
\* that very list (the same object), its file is not read, and a request
\* for it returns that object; this holds whichever language the step
\* loads.
C24_LoadedOnce ==
    [][\A lang \in DOMAIN getter.m_words_lists :
           /\ lang \in DOMAIN getter'.m_words_lists
           /\ getter'.m_words_lists[lang] = getter.m_words_lists[lang]
           /\ getter'.reads[lang] = getter.reads[lang]
           /\ getter'.reads[lang] = 1
           /\ call' # call /\ call'.op = "GetByLanguage" /\ call'.arg.lang = lang
                 => /\ call'.err = "none"
                    /\ call'.val = getter.m_words_lists[lang]]_vars

\* The list of a language was requested again and returned, its file read
\* once, while the getter holds the list of another language as well
C24_Witness ==
    /\ call.op = "GetByLanguage"
    /\ call.prev.same
    /\ call.err = "none"
    /\ call.val = call.prev.val
    /\ getter.reads[call.arg.lang] = 1
    /\ \E other \in DOMAIN getter.m_words_lists : other # call.arg.lang

----------------------------------------------------------------------------
(* C25 *)

\* Whether the words file of the i-th language gives a list (it has the
\* number of words asked for) and that list has every word of the mnemonic
ContainsAll(i, mnemonic) ==
    LET r == LoadFile(getter.files[Langs[i]], WordsNum)
    IN  /\ r.err = "none"
        /\ \A k \in 1..Len(mnemonic) : mnemonic[k] \in Range(r.val.m_idx_to_words)

\* C25: _FindLanguageGeneric returns the list and the language of the first
\* language of the enumeration whose list has every word of the mnemonic,
\* the list being the one the getter holds for it, and raises ValueError
\* exactly when no language has such a list.
C25_FindLanguage ==
    call.op = "FindLanguage"
       => LET mnemonic == call.arg.mnemonic
              matching == {i \in 1..Len(Langs) : ContainsAll(i, mnemonic)}
          IN  IF matching = {}
              THEN call.err = "ValueError" /\ call.val = NoVal
              ELSE LET first == CHOOSE i \in matching : \A k \in matching : i <= k
                   IN  /\ call.err = "none"
                       /\ call.val.lang = Langs[first]
                       /\ Langs[first] \in DOMAIN getter.m_words_lists
                       /\ call.val.words_list = getter.m_words_lists[Langs[first]]
                       /\ \A k \in 1..Len(mnemonic) :
                             mnemonic[k] \in Range(call.val.words_list.m_idx_to_words)

\* The first word of the mnemonic is in the list of the first language, a
\* later word is not, and the second language was returned
C25_Witness ==
    /\ call.op = "FindLanguage"
    /\ call.err = "none"
    /\ call.val.lang = Langs[2]
    /\ Len(call.arg.mnemonic) = 2
    /\ Langs[1] \in DOMAIN getter.m_words_lists
    /\ call.arg.mnemonic[1] \in Range(getter.m_words_lists[Langs[1]].m_idx_to_words)
    /\ call.arg.mnemonic[2] \notin Range(getter.m_words_lists[Langs[1]].m_idx_to_words)

----------------------------------------------------------------------------
(* C26 *)

\* C26: GetWordIdx raises ValueError exactly when the word is not in the
\* list, and otherwise returns an index from 0 to the length of the list
\* less one at which the list has the word; after the call, found or not,
\* the list object has the list and the dictionary it had before.
C26_GetWordIdx ==
    call.op = "GetWordIdx"
       => LET list == call.recv
              word == call.arg.word
              after == getter.m_words_lists[list.id[1]]
          IN  /\ call.err = "ValueError" <=> word \notin Range(list.m_idx_to_words)
              /\ call.err \in {"none", "ValueError"}
              /\ call.err = "none"
                    => /\ call.val.idx \in 0..(Len(list.m_idx_to_words) - 1)
                       /\ list.m_idx_to_words[call.val.idx + 1] = word
              /\ after.id = list.id
              /\ after.m_idx_to_words = list.m_idx_to_words
              /\ after.m_words_to_idx = list.m_words_to_idx

\* A word that is in no position of the list was looked up, after a word
\* that is was
C26_Witness ==
    /\ call.op = "GetWordIdx"
    /\ call.err = "ValueError"
    /\ call.val = NoVal
    /\ call.arg.word \notin DOMAIN call.recv.m_words_to_idx
    /\ Len(call.recv.m_idx_to_words) = WordsNum

----------------------------------------------------------------------------
(* C27 *)

\* The positions of a line that hold no whitespace
Inked(line) == {k \in 1..Len(line) : line[k] \notin WhiteSpace}

\* The line from its first to its last such position
Core(line) ==
    LET first == CHOOSE k \in Inked(line) : \A m \in Inked(line) : k <= m
        last == CHOOSE k \in Inked(line) : \A m \in Inked(line) : m <= k
    IN  SubSeq(line, first, last)

\* The lines of a file that are not blank
NotBlank(lines) == {i \in 1..Len(lines) : Inked(lines[i]) # {}}

\* C27: LoadFile raises ValueError, returning no list, when the number of
\* lines that are not blank differs from words_num; otherwise it returns a
\* list of words_num words, the j-th of which is the j-th such line without
\* the whitespace around it.
C27_LoadFile ==
    call.op = "LoadFile"
       => LET lines == call.arg.lines
              kept == NotBlank(lines)
          IN  IF Cardinality(kept) # call.arg.words_num
              THEN call.err = "ValueError" /\ call.val = NoVal
              ELSE /\ call.err = "none"
                   /\ Len(call.val.m_idx_to_words) = call.arg.words_num
                   /\ \A i \in kept :
                         call.val.m_idx_to_words[Cardinality({k \in kept : k <= i})]
                             = Core(lines[i])

\* A file with a blank line and a line with whitespace around its word was
\* loaded
C27_Witness ==
    /\ call.op = "LoadFile"
    /\ call.err = "none"
    /\ Len(call.arg.lines) > call.arg.words_num
    /\ call.arg.words_num >= 2
    /\ \E i \in 1..Len(call.arg.lines) :
          /\ Inked(call.arg.lines[i]) # {}
          /\ call.arg.lines[i] \notin Range(call.val.m_idx_to_words)
          /\ call.arg.lines[i][1] \in WhiteSpace

----------------------------------------------------------------------------
(* C29 *)

\* C29: Coin at PURPOSE derives with the coin index of the object's coin
\* configuration plus 2^31, and Account(i) at COIN with i hardened (i
\* itself, if it is hardened already), on every curve; Purpose at MASTER
\* derives with the purpose index as it was given, hardened or not.
C29_UpperLevelsHardened ==
    /\ call.op = "Purpose" /\ Depth(call.recv) = MASTER
          => /\ call.idx = <<call.arg.purpose>>
             /\ call.err = "none"
                   => call.ret.m_bip32.path = Append(call.recv.m_bip32.path, call.arg.purpose)
    /\ call.op = "Coin" /\ Depth(call.recv) = PURPOSE
          => LET i == Index(1, call.recv.m_coin_conf.coin_idx)
             IN  /\ call.idx = <<i>>
                 /\ call.err = "none"
                       => call.ret.m_bip32.path = Append(call.recv.m_bip32.path, i)
    /\ call.op = "Account" /\ Depth(call.recv) = COIN
          => LET i == Index(1, call.arg.acc_idx.lo)
             IN  /\ call.idx = <<i>>
                 /\ call.arg.acc_idx.hi = 1 => call.idx = <<call.arg.acc_idx>>
                 /\ call.err = "none"
                       => call.ret.m_bip32.path = Append(call.recv.m_bip32.path, i)

\* Account derived with an unhardened index made hardened, below a coin
\* index made hardened, below a purpose index that was given unhardened and
\* has stayed so
C29_Witness ==
    /\ call.op = "Account"
    /\ call.err = "none"
    /\ call.arg.acc_idx = Unhardened(1)
    /\ call.ret.m_bip32.path =
           <<Unhardened(44), Hardened(call.recv.m_coin_conf.coin_idx), Hardened(1)>>

----------------------------------------------------------------------------
(* C30 *)

\* C30: AddressIndex(i) at CHANGE derives with i hardened if the curve does
\* not support unhardened private derivation and with i as given if it does
\* (a hardened i stays hardened); Change at ACCOUNT hardens its index in
\* exactly the same case.
C30_AddressIndexHardening ==
    /\ call.op = "AddressIndex" /\ Depth(call.recv) = CHANGE
          => LET i == call.arg.addr_idx
                 used == IF IsPrivateUnhardenedDerivationSupported(call.recv.m_bip32)
                         THEN i ELSE Index(1, i.lo)
             IN  /\ call.idx = <<used>>
                 /\ call.err = "none"
                       => call.ret.m_bip32.path = Append(call.recv.m_bip32.path, used)
    /\ call.op = "AddressIndex" /\ Depth(call.recv) = CHANGE /\ ~IsHardened(call.arg.addr_idx)
          => (IsHardened(call.idx[1])
                 <=> ~IsPrivateUnhardenedDerivationSupported(call.recv.m_bip32))
    /\ call.op = "Change" /\ Depth(call.recv) = ACCOUNT /\ call.arg.change_type \in Bip44Changes
          => (IsHardened(call.idx[1])
                 <=> ~IsPrivateUnhardenedDerivationSupported(call.recv.m_bip32))

\* AddressIndex derived with an index of 2^31 or more as it was given, on a
\* curve that supports unhardened private derivation
C30_Witness ==
    /\ call.op = "AddressIndex"
    /\ call.err = "none"
    /\ IsPrivateUnhardenedDerivationSupported(call.recv.m_bip32)
    /\ IsHardened(call.arg.addr_idx)
    /\ call.idx = <<call.arg.addr_idx>>

----------------------------------------------------------------------------
(* C31 *)

ConstructorOps == {"FromSeed", "FromExtendedKey", "FromPrivateKey"}

\* C31: in every step, the object a constructor returns has the coin
\* configuration it was given; the object Purpose, Coin, Account, Change,
\* AddressIndex or DeriveDefaultPath returns has the coin configuration of
\* its receiver; the object the caller goes on with has the coin
\* configuration of the object it held; and Coin derives with the coin
\* index of that configuration.
C31_CoinConfCarried ==
    [][/\ call'.op \in ConstructorOps /\ call'.err = "none"
             => CoinConf(bip_obj') = call'.arg.coin_conf
       /\ call'.op \in DerivationOps /\ call'.err = "none"
             => CoinConf(call'.ret) = CoinConf(call'.recv)
       /\ bip_obj # NoObj => bip_obj' # NoObj /\ CoinConf(bip_obj') = CoinConf(bip_obj)
       /\ call'.op = "Coin" /\ call'.idx # <<>>
             => call'.idx = <<Index(1, CoinConf(call'.recv).coin_idx)>>]_vars

\* The default path was derived from a master object constructed with a
\* configuration other than that of Bitcoin main net, and the caller went
\* on with the object returned
C31_Witness ==
    /\ call.op = "DeriveDefaultPath"
    /\ call.err = "none"
    /\ bip_obj = call.ret
    /\ CoinConf(call.recv).coin_idx = 1
    /\ CoinConf(call.recv).bip32_cls = Ed25519Slip
    /\ CoinConf(bip_obj) = CoinConf(call.recv)
    /\ call.idx[2] = Hardened(1)

----------------------------------------------------------------------------
(* C32 *)

\* C32: in every step, the object a derivation method returns is
\* public-only exactly if its receiver is; the object the caller goes on
\* with is public-only exactly if the one it held was, and PrivateKey
\* raises Bip32KeyError on it if it is and returns if it is not.
C32_PublicOnlyPreserved ==
    [][/\ call'.op \in DerivationOps /\ call'.err = "none"
             => IsPublicOnly(call'.ret) = IsPublicOnly(call'.recv)
       /\ bip_obj # NoObj
             => /\ IsPublicOnly(bip_obj') = IsPublicOnly(bip_obj)
                /\ PrivateKey(bip_obj').err
                       = IF IsPublicOnly(bip_obj) THEN "Bip32KeyError" ELSE "none"]_vars

\* Change and then AddressIndex were derived from a public-only account
\* object, and the caller holds the public-only object at the address
\* index level
C32_Witness ==
    /\ call.op = "AddressIndex"
    /\ call.err = "none"
    /\ IsPublicOnly(call.recv)
    /\ IsPublicOnly(call.ret)
    /\ bip_obj = call.ret
    /\ PrivateKey(bip_obj).err = "Bip32KeyError"

----------------------------------------------------------------------------
(* C33 *)

\* C33, as stated: on every list LoadFile returns, the word at the index
\* GetWordIdx returned for a word of the list is that word, and the index
\* of the word GetWordAtIdx returned for an index from 0 to the length of
\* the list less one is that index.
C33_Original ==
    /\ call.op = "GetWordIdx" /\ call.arg.word \in Range(call.recv.m_idx_to_words)
          => /\ call.err = "none"
             /\ GetWordAtIdx(call.recv, call.val.idx) = ReturnVal([word |-> call.arg.word])
    /\ call.op = "GetWordAtIdx" /\ call.arg.word_idx \in 0..(Len(call.recv.m_idx_to_words) - 1)
          => /\ call.err = "none"
             /\ GetWordIdx(call.recv, call.val.word).err = "none"
             /\ GetWordIdx(call.recv, call.val.word).val = [idx |-> call.arg.word_idx]

----------------------------------------------------------------------------
(* C34 *)

\* C34, as stated: in every step, Instance() called on a concrete getter
\* class returns an object of that class, and the object an earlier call on
\* that class returned if there was one, in whatever order Instance() was
\* called on the other classes before; and the calls on two different
\* getter classes return different objects.
C34_Original ==
    [][/\ call' # call /\ call'.op = "Instance" /\ call'.arg.cls \in ConcreteGetters
             => /\ call'.err = "none"
                /\ call'.val.class = call'.arg.cls
                /\ ClassAttr(class_instance, call'.arg.cls) # NoInstance
                      => call'.val = ClassAttr(class_instance, call'.arg.cls)
       /\ call.op = "Instance" /\ call'.op = "Instance"
             /\ call.arg.cls \in ConcreteGetters /\ call'.arg.cls \in ConcreteGetters
             /\ call.arg.cls # call'.arg.cls
             => call'.val # call.val]_vars

----------------------------------------------------------------------------
(* C35 *)

\* C35: in every step, a request for the words list of a language that
\* raises (ValueError, the words file not having the number of words asked
\* for) returns no list, reads the file of the language once more, and
\* leaves the lists the getter holds as they were, with none for that
\* language; and the getter never holds a list for a language whose file
\* does not load.
C35_FailedLoad ==
    [][/\ call'.op = "GetByLanguage" /\ call'.err # "none"
             => /\ call'.err = "ValueError"
                /\ call'.val = NoVal
                /\ getter'.m_words_lists = getter.m_words_lists
                /\ call'.arg.lang \notin DOMAIN getter'.m_words_lists
                /\ getter'.reads[call'.arg.lang] = getter.reads[call'.arg.lang] + 1
                /\ \A lang \in LangSet \ {call'.arg.lang} :
                      getter'.reads[lang] = getter.reads[lang]
       /\ \A lang \in LangSet :
             LoadFile(getter'.files[lang], WordsNum).err # "none"
                 => lang \notin DOMAIN getter'.m_words_lists]_vars

\* The list of a language whose file has a word too few was requested a
\* second time and the file read a second time, the getter holding the
\* list of another language
C35_Witness ==
    /\ call.op = "GetByLanguage"
    /\ call.err = "ValueError"
    /\ call.prev.same
    /\ call.prev.err = "ValueError"
    /\ getter.reads[call.arg.lang] = 2
    /\ call.arg.lang \notin DOMAIN getter.m_words_lists
    /\ DOMAIN getter.m_words_lists # {}

====
